---- MODULE Spec2Model ----
(***************************************************************************)
(* A model of mos_tests/environment/ssh.py: the SSHClient session (its     *)
(* connection life cycle, the retry decorator around reconnect(), the      *)
(* elevated-mode guard) and the commands it issues.                        *)
(*                                                                         *)
(* Two specifications share the variables:                                 *)
(*   SpecConn  the connection life cycle of one session, from the state    *)
(*             __init__ leaves: connect, reconnect (one action per attempt *)
(*             of the retry loop), clear, the with-scope, the sftp channel *)
(*   SpecCmd   the commands of a session whose life cycle is at rest in    *)
(*             one of the states SpecConn reaches: the sudo guard,         *)
(*             execute_async, execute, check_call, check_stderr, mkdir,    *)
(*             rm_rf and execute_together                                  *)
(* The code is Python 2 (os_cli.py subclasses unicode): a name bound by    *)
(* "except ... as e" outlives its clause, and a bare raise re-raises the   *)
(* exception most recently handled in the frame.                           *)
(***************************************************************************)
EXTENDS Integers, Sequences, FiniteSets, TLC

\* ------------------------------------------------------------------ bounds
MaxKeys == 2        \* private keys a session is constructed with
MaxHandles == 3     \* handle identities of one kind that may coexist
MaxClears == 2      \* consecutive clear() calls that are told apart
MaxGuards == 2      \* nested "with session.sudo:" bodies
MaxRemotes == 3     \* sessions handed to execute_together

\* --------------------------------------------------------- program constants
RetryCount_short == 3 - 1     \* (mutant) one attempt fewer
RetryCount == 3     \* @retry(count=3, ...)
RetryDelay == 3     \* @retry(..., delay=3)

None == "None"
AuthenticationException == "AuthenticationException"
Kinds == {"sftp", "ssh", "proxy"}
\* what one self._ssh.connect(...) call can do: return, reject the credential,
\* or fail in any other way (the host is down, the banner times out, ...)
Outcomes == {"ok", AuthenticationException, "SocketError"}
Handles == 1..MaxHandles
KeyName(i) == IF i = 1 THEN "keyA" ELSE IF i = 2 THEN "keyB" ELSE "keyC"

VARIABLES
    self,       \* the SSHClient's attributes, as __init__ names them
    lib,        \* paramiko's side: the handles close() was not yet called on,
                \* and whether self._ssh holds an authenticated transport
    pc,         \* where the session's caller is: "idle" (about to call an
                \* operation), "returned" (holding what the last one gave), or
                \* inside reconnect(): "retry", "enter_except"
    who,        \* the caller of the running reconnect(): "reconnect" | "__enter__"
    attempt,    \* retry.wrapper: iterations of "for _ in range(count)" done
    e,          \* retry.wrapper: the exception bound by "except Exception as e"
    scope,      \* "out" | "in": whether a "with session" body is running
    streak,     \* consecutive clear() calls, counted up to MaxClears
    last,       \* the last operation called, its argument and how it ended
    rlog,       \* retry.wrapper's steps during the last reconnect()
    connLog,    \* the self._ssh.connect calls of the last connect() called
                \* by the session's user
    connOuts,   \* what the server answers to each credential in that connect()
    clearLog,   \* the close() calls of the last clear() called by the user,
                \* by __exit__ or by __enter__'s except clause
    guards,     \* "with session.sudo:" bodies that are running (nested)
    chans,      \* the channels the last command operation opened
    result,     \* the CommandResult the last command operation built (0 or 1)
    raised,     \* the CalledProcessError it raised (0 or 1)
    trace,      \* the channel calls of the last execute_together, in order
    rfs,        \* the remote host's files: what is at each path
    lfs,        \* the local host's files: what is at each path
    ops,        \* the sftp and shell calls of the last upload or download
    retval,     \* the value the last upload, download or os_execute returned
                \* (0 or 1)
    stream      \* an execute call followed step by step: where it is, the
                \* remote process and what is in flight on the channel

vars == <<self, lib, pc, who, attempt, e, scope, streak, last, rlog, connLog,
          connOuts, clearLog, guards, chans, result, raised, trace, rfs, lfs,
          ops, retval, stream>>

\* what the session's life cycle leaves alone / what its commands leave alone
fileVars == <<rfs, lfs, ops, retval>>
cmdVars == <<guards, chans, result, raised, trace, fileVars, stream>>
retryVars == <<who, attempt, e>>
connLogs == <<rlog, connLog, connOuts, clearLog>>

Min(S) == CHOOSE x \in S : \A y \in S : x <= y

\* A handle identity for a new object: one no live object of the kind has and
\* the attribute about to be rebound does not hold.
FreeHandles(unclosed, cur) == Handles \ (unclosed \cup {cur})
NewHandle(unclosed, cur) == Min(FreeHandles(unclosed, cur))

\* ------------------------------------------------------------- SSHClient.clear
\* One guarded close: "if x is not None: try: x.close() except Exception: log".
CloseCall(kind, h, fails) ==
    IF h = 0 THEN <<>> ELSE <<[kind |-> kind, h |-> h, raised |-> fails[kind]]>>

\* (mutant) clear() without the try/except around each close(): the first
\* close() that raises ends it.
RECURSIVE UpToRaise(_)
UpToRaise(calls) ==
    IF calls = <<>> THEN <<>>
    ELSE IF Head(calls).raised THEN <<Head(calls)>>
    ELSE <<Head(calls)>> \o UpToRaise(Tail(calls))
clear_uncaught(s, fails) ==
    LET all == CloseCall("sftp", s._sftp_client, fails)
               \o CloseCall("ssh", s._ssh, fails)
               \o CloseCall("proxy", s._proxy, fails)
        done == UpToRaise(all)
    IN  [calls |-> done,
         res |-> IF done # <<>> /\ done[Len(done)].raised
                 THEN "Exception" ELSE "ok"]

\* clear(): the close() calls it makes, in order, and how it ends.  fails[k]
\* says whether close() of the k handle raises an Exception.
clear(s, fails) ==
    [calls |-> CloseCall("sftp", s._sftp_client, fails)
               \o CloseCall("ssh", s._ssh, fails)
               \o CloseCall("proxy", s._proxy, fails),
     res |-> "ok"]

\* paramiko after those close() calls: a handle close() was called on is no
\* longer open, and a closed SSHClient has no transport.
Closed(l, calls) ==
    LET hs(k) == {calls[i].h : i \in {j \in 1..Len(calls) : calls[j].kind = k}}
    IN [unclosed |-> [k \in Kinds |-> l.unclosed[k] \ hs(k)],
        connected |-> l.connected /\ hs("ssh") = {}]

\* ----------------------------------------------------------- SSHClient.connect
\* The loop over self.private_keys from index i: each key is tried with the
\* password cleared; only an AuthenticationException moves on to the next key.
\* (mutant) the loop without "kwargs['password'] = None".
RECURSIVE connectKeys_password(_, _, _)
connectKeys_password(s, outs, i) ==
    IF i > Len(s.private_keys) THEN [tries |-> <<>>, res |-> "exhausted"]
    ELSE LET t == [pkey |-> s.private_keys[i], password |-> s.password,
                   sock |-> s._proxy, out |-> outs[i]]
         IN  IF outs[i] = AuthenticationException
             THEN LET r == connectKeys_password(s, outs, i + 1)
                  IN  [tries |-> <<t>> \o r.tries, res |-> r.res]
             ELSE [tries |-> <<t>>, res |-> outs[i]]

\* (mutant) the loop with "except Exception: continue": any failure of a key
\* moves on to the next credential.
RECURSIVE connectKeys_any(_, _, _)
connectKeys_any(s, outs, i) ==
    IF i > Len(s.private_keys) THEN [tries |-> <<>>, res |-> "exhausted"]
    ELSE LET t == [pkey |-> s.private_keys[i], password |-> None,
                   sock |-> s._proxy, out |-> outs[i]]
         IN  IF outs[i] # "ok"
             THEN LET r == connectKeys_any(s, outs, i + 1)
                  IN  [tries |-> <<t>> \o r.tries, res |-> r.res]
             ELSE [tries |-> <<t>>, res |-> outs[i]]

RECURSIVE connectKeys(_, _, _)
connectKeys(s, outs, i) ==
    IF i > Len(s.private_keys) THEN [tries |-> <<>>, res |-> "exhausted"]
    ELSE LET t == [pkey |-> s.private_keys[i], password |-> None,
                   sock |-> s._proxy, out |-> outs[i]]
         IN  IF outs[i] = AuthenticationException
             THEN LET r == connectKeys(s, outs, i + 1)
                  IN  [tries |-> <<t>> \o r.tries, res |-> r.res]
             ELSE [tries |-> <<t>>, res |-> outs[i]]

\* (mutant) connect() that gives up once every key is rejected: no attempt
\* with the password when keys were given.
connect_keys_only(s, outs) ==
    IF s._ssh = 0 THEN [tries |-> <<>>, res |-> "AttributeError"]
    ELSE LET k == connectKeys(s, outs, 1)
             n == Len(s.private_keys) + 1
             t == [pkey |-> None, password |-> s.password,
                   sock |-> s._proxy, out |-> outs[n]]
         IN  IF k.res = "exhausted"
             THEN IF s.private_keys = <<>>
                  THEN [tries |-> <<t>>, res |-> outs[n]]
                  ELSE [tries |-> k.tries, res |-> AuthenticationException]
             ELSE k

\* connect(): the self._ssh.connect calls it makes and how it ends.  outs[i] is
\* the outcome of the call with key i; outs[Len(keys) + 1] that of the call
\* with the password.
connect(s, outs) ==
    IF s._ssh = 0 THEN [tries |-> <<>>, res |-> "AttributeError"]
    ELSE LET k == connectKeys(s, outs, 1)
             n == Len(s.private_keys) + 1
             t == [pkey |-> None, password |-> s.password,
                   sock |-> s._proxy, out |-> outs[n]]
         IN  IF k.res = "exhausted"
             THEN [tries |-> k.tries \o <<t>>, res |-> outs[n]]
             ELSE k

\* paramiko after connect(): a call that returned left self._ssh with an
\* authenticated transport (and open, also when it had been closed before).
Connected(s, l, res) ==
    IF res = "ok"
    THEN [unclosed |-> [l.unclosed EXCEPT !["ssh"] = @ \cup {s._ssh}],
          connected |-> TRUE]
    ELSE IF s._ssh = 0 THEN l ELSE [l EXCEPT !.connected = FALSE]

\* --------------------------------------------------------- SSHClient.reconnect
\* The body of reconnect(), one call of it by the retry wrapper: clear(), a new
\* paramiko.SSHClient, a new ProxyCommand when proxy_command is set (spawn says
\* whether the process could be started), then connect().
\* (mutant) a reconnect() that does not call clear() first.
reconnect_keep(s, l, fails, spawn, outs) ==
    LET h  == NewHandle(l.unclosed["ssh"], s._ssh)
        s2 == [s EXCEPT !._ssh = h]
        l2 == [unclosed |-> [l.unclosed EXCEPT !["ssh"] = @ \cup {h}],
               connected |-> FALSE]
        p  == NewHandle(l2.unclosed["proxy"], s._proxy)
        s3 == [s2 EXCEPT !._proxy = p]
        l3 == [l2 EXCEPT !.unclosed["proxy"] = @ \cup {p}]
    IN  IF s.proxy_command = None
        THEN LET k == connect(s2, outs)
             IN  [self |-> s2, lib |-> Connected(s2, l2, k.res),
                  calls |-> <<>>, tries |-> k.tries, outs |-> outs,
                  res |-> k.res]
        ELSE IF ~spawn
        THEN [self |-> s2, lib |-> l2, calls |-> <<>>, tries |-> <<>>,
              outs |-> <<>>, res |-> "OSError"]
        ELSE LET k == connect(s3, outs)
             IN  [self |-> s3, lib |-> Connected(s3, l3, k.res),
                  calls |-> <<>>, tries |-> k.tries, outs |-> outs,
                  res |-> k.res]

reconnect(s, l, fails, spawn, outs) ==
    LET c  == clear(s, fails)
        l1 == Closed(l, c.calls)
        h  == NewHandle(l1.unclosed["ssh"], s._ssh)
        s2 == [s EXCEPT !._ssh = h]
        l2 == [unclosed |-> [l1.unclosed EXCEPT !["ssh"] = @ \cup {h}],
               connected |-> FALSE]
        p  == NewHandle(l2.unclosed["proxy"], s._proxy)
        s3 == [s2 EXCEPT !._proxy = p]
        l3 == [l2 EXCEPT !.unclosed["proxy"] = @ \cup {p}]
    IN  IF c.res # "ok"
        THEN [self |-> s, lib |-> l1, calls |-> c.calls, tries |-> <<>>,
              outs |-> <<>>, res |-> c.res]
        ELSE IF s.proxy_command = None
        THEN LET k == connect(s2, outs)
             IN  [self |-> s2, lib |-> Connected(s2, l2, k.res),
                  calls |-> c.calls, tries |-> k.tries, outs |-> outs,
                  res |-> k.res]
        ELSE IF ~spawn
        THEN [self |-> s2, lib |-> l2, calls |-> c.calls, tries |-> <<>>,
              outs |-> <<>>, res |-> "OSError"]
        ELSE LET k == connect(s3, outs)
             IN  [self |-> s3, lib |-> Connected(s3, l3, k.res),
                  calls |-> c.calls, tries |-> k.tries, outs |-> outs,
                  res |-> k.res]

\* --------------------------------------------------------------------- state
ConnOutcomes(s) == [1..(Len(s.private_keys) + 1) -> Outcomes]
\* The same, told apart only by the answers connect() can get to ask for: the
\* credentials after the first one that is not merely rejected are never tried.
AskedOutcomes(s) ==
    {outs \in ConnOutcomes(s) :
        \A i \in DOMAIN outs : outs[i] # AuthenticationException
            => \A j \in DOMAIN outs : j > i => outs[j] = "ok"}
CloseOutcomes == [Kinds -> BOOLEAN]
\* The same, told apart only on the handles clear() has to close.
CloseOutcomesOf(s) ==
    {fails \in CloseOutcomes :
        /\ s._sftp_client = 0 => ~fails["sftp"]
        /\ s._ssh = 0 => ~fails["ssh"]
        /\ s._proxy = 0 => ~fails["proxy"]}
\* no execute call is being followed
NoStream ==
    [pc |-> "idle", merge |-> FALSE, verbose |-> FALSE, todo |-> <<>>,
     exited |-> FALSE, exit |-> 0, sent |-> <<>>, outbuf |-> <<>>,
     errbuf |-> <<>>, stdout |-> <<>>, stderr |-> <<>>, exit_code |-> 0,
     ev |-> <<>>, retval |-> <<>>, res |-> None]
NoLast == [op |-> "__init__", arg |-> None, res |-> "ok"]

\* SSHClient.__init__: no handle yet, sudo_mode off.
Constructed(nkeys, pw, proxy) ==
    [host |-> "A",
     password |-> pw,
     private_keys |-> [i \in 1..nkeys |-> KeyName(i)],
     proxy_command |-> proxy,
     sudo_mode |-> FALSE,
     _ssh |-> 0, _sftp_client |-> 0, _proxy |-> 0]

\* no file was looked at yet and no upload or download was called
NoFileCalls == rfs = <<>> /\ lfs = <<>> /\ ops = <<>> /\ retval = <<>>

NoHandles == [unclosed |-> [k \in Kinds |-> {}], connected |-> FALSE]

InitConn ==
    /\ \E n \in 0..MaxKeys, pw \in {None, "secret"}, px \in {None, "nc"} :
           self = Constructed(n, pw, px)
    /\ lib = NoHandles
    /\ pc = "idle" /\ who = None /\ attempt = 0 /\ e = None
    /\ scope = "out" /\ streak = 0
    /\ last = NoLast
    /\ rlog = <<>> /\ connLog = <<>> /\ connOuts = <<>> /\ clearLog = <<>>
    /\ guards = 0 /\ chans = <<>> /\ result = <<>> /\ raised = <<>>
    /\ trace = <<>> /\ NoFileCalls
    /\ stream = NoStream

\* The caller has looked at what the last operation gave and goes on to its
\* next call: what was recorded about the last operation is dropped.
Return ==
    /\ pc = "returned"
    /\ pc' = "idle"
    /\ last' = NoLast
    /\ rlog' = <<>> /\ connLog' = <<>> /\ connOuts' = <<>> /\ clearLog' = <<>>
    /\ chans' = <<>> /\ result' = <<>> /\ raised' = <<>>
    /\ trace' = <<>> /\ ops' = <<>> /\ retval' = <<>>
    /\ UNCHANGED <<self, lib, who, attempt, e, scope, streak, guards, rfs, lfs>>
    /\ UNCHANGED stream

\* ------------------------------------------------------------ direct calls
\* session.connect()
Connect ==
    /\ pc = "idle"
    /\ \E outs \in ConnOutcomes(self) :
         LET k == connect(self, outs)
         IN  /\ lib' = Connected(self, lib, k.res)
             /\ connLog' = k.tries
             /\ connOuts' = IF self._ssh = 0 THEN <<>> ELSE outs
             /\ last' = [op |-> "connect", arg |-> None, res |-> k.res]
    /\ pc' = "returned"
    /\ streak' = 0
    /\ UNCHANGED <<self, scope, rlog, clearLog>>
    /\ UNCHANGED <<retryVars, cmdVars>>

\* session.clear()
Clear ==
    /\ pc = "idle"
    /\ \E fails \in CloseOutcomesOf(self) :
         LET c == clear(self, fails)
         IN  /\ lib' = Closed(lib, c.calls)
             /\ clearLog' = c.calls
             /\ last' = [op |-> "clear", arg |-> None, res |-> c.res]
    /\ pc' = "returned"
    /\ streak' = IF streak < MaxClears THEN streak + 1 ELSE streak
    /\ UNCHANGED <<self, scope, rlog, connLog, connOuts>>
    /\ UNCHANGED <<retryVars, cmdVars>>

\* ------------------------------------------------------ SSHClient._sftp
\* The _sftp property: the sftp client is opened on self._ssh the first time
\* it is asked for, and the one held is returned from then on.  opens says
\* whether open_sftp() succeeds on a connected client.
\* (mutant) a _sftp that connects a session that has no ssh client yet.
_sftp_lazy(s, l, opens) ==
    IF s._sftp_client # 0 THEN [self |-> s, lib |-> l, res |-> "ok"]
    ELSE IF ~opens
    THEN [self |-> s, lib |-> l, res |-> "SSHException"]
    ELSE LET h == NewHandle(l.unclosed["sftp"], 0)
         IN  [self |-> [s EXCEPT !._sftp_client = h,
                                 !._ssh = IF @ = 0 THEN 1 ELSE @],
              lib |-> [unclosed |-> [l.unclosed EXCEPT
                                        !["sftp"] = @ \cup {h},
                                        !["ssh"] = @ \cup {1}],
                       connected |-> TRUE],
              res |-> "ok"]

_sftp(s, l, opens) ==
    IF s._sftp_client # 0 THEN [self |-> s, lib |-> l, res |-> "ok"]
    ELSE IF s._ssh = 0 \/ ~l.connected
    THEN [self |-> s, lib |-> l, res |-> "AttributeError"]
    ELSE IF ~opens
    THEN [self |-> s, lib |-> l, res |-> "SSHException"]
    ELSE LET h == NewHandle(l.unclosed["sftp"], 0)
         IN  [self |-> [s EXCEPT !._sftp_client = h],
              lib |-> [l EXCEPT !.unclosed["sftp"] = @ \cup {h}],
              res |-> "ok"]

\* A use of self._sftp by a file operation.
GetSftp ==
    /\ pc = "idle"
    /\ FreeHandles(lib.unclosed["sftp"], 0) # {}
    /\ \E opens \in BOOLEAN :
         LET r == _sftp(self, lib, opens)
         IN  /\ self' = r.self
             /\ lib' = r.lib
             /\ last' = [op |-> "_sftp", arg |-> None, res |-> r.res]
    /\ pc' = "returned"
    /\ streak' = 0
    /\ UNCHANGED <<scope, connLogs, retryVars, cmdVars>>

\* ------------------------------------------------------------ retry.wrapper
Call(res) == [ev |-> "call", res |-> res, secs |-> 0]
Sleep(d) == [ev |-> "sleep", res |-> None, secs |-> d]
Warning(x) == [ev |-> "warning", res |-> x, secs |-> 0]

\* (mutant) the except clause without time.sleep(delay).
iteration_busy(res) == <<Call(res)>>

\* One iteration of "for _ in range(count)" whose func call ended res: the call
\* returns, or its exception is caught and the wrapper sleeps.
iteration(res) ==
    IF res = "ok" THEN <<Call(res)>> ELSE <<Call(res), Sleep(RetryDelay)>>

\* (mutant) the wrapper keeps the first exception it caught.
caught_first(old, exc) == IF old = None THEN exc ELSE old

\* "except Exception as e": the name e after the clause that caught exc.
caught(old, exc) == exc

\* The decorated reconnect() is called by caller: the wrapper's loop starts.
Begin(caller) ==
    /\ pc = "idle"
    /\ pc' = "retry" /\ who' = caller /\ attempt' = 0 /\ e' = None
    /\ last' = [op |-> caller, arg |-> None, res |-> "running"]
    /\ streak' = 0
    /\ UNCHANGED <<self, lib, scope, connLogs, cmdVars>>

\* session.reconnect()
Reconnect == Begin("reconnect")

\* "with session:" calls __enter__, which calls reconnect()
Enter == scope = "out" /\ Begin("__enter__")

\* One iteration of the wrapper's loop: reconnect()'s body runs once.  When it
\* returns, the wrapper returns and its locals are gone.
RetryAttempt ==
    /\ pc = "retry" /\ attempt < RetryCount
    /\ FreeHandles(lib.unclosed["ssh"], self._ssh) # {}
    /\ FreeHandles(lib.unclosed["proxy"], self._proxy) # {}
    /\ \E fails \in CloseOutcomesOf(self), spawn \in BOOLEAN,
          outs \in AskedOutcomes(self) :
         LET r == reconnect(self, lib, fails, spawn, outs)
         IN  /\ self' = r.self
             /\ lib' = r.lib
             /\ rlog' = rlog \o iteration(r.res)
             /\ IF r.res = "ok"
                THEN /\ pc' = "returned"
                     /\ last' = [op |-> who, arg |-> None, res |-> "ok"]
                     /\ scope' = IF who = "__enter__" THEN "in" ELSE scope
                     /\ who' = None /\ attempt' = 0 /\ e' = None
                ELSE /\ pc' = "retry"
                     /\ attempt' = attempt + 1
                     /\ e' = caught(e, r.res)
                     /\ UNCHANGED <<who, last, scope>>
    /\ UNCHANGED <<streak, connLog, connOuts, clearLog, cmdVars>>

\* The loop's else clause: logger.warning(e), then the bare raise.  Inside
\* __enter__ the exception reaches its "except Exception" clause.
RetryExhausted ==
    /\ pc = "retry" /\ attempt = RetryCount
    /\ rlog' = Append(rlog, Warning(e))
    /\ IF who = "__enter__"
       THEN /\ pc' = "enter_except"
            /\ UNCHANGED <<last, who, attempt, e>>
       ELSE /\ pc' = "returned"
            /\ last' = [op |-> who, arg |-> None, res |-> e]
            /\ who' = None /\ attempt' = 0 /\ e' = None
    /\ UNCHANGED <<self, lib, scope, streak, connLog, connOuts, clearLog,
                   cmdVars>>

\* ---------------------------------------------- SSHClient.__enter__/__exit__
\* (mutant) __enter__ without its except clause: the exception of reconnect()
\* goes to the caller as it is.
EnterExcept_no_clear ==
    /\ pc = "enter_except"
    /\ last' = [op |-> "__enter__", arg |-> None, res |-> e]
    /\ pc' = "returned"
    /\ who' = None /\ attempt' = 0 /\ e' = None
    /\ UNCHANGED <<self, lib, scope, streak, connLogs, cmdVars>>

\* __enter__'s "except Exception: self.clear(); raise".
EnterExcept ==
    /\ pc = "enter_except"
    /\ \E fails \in CloseOutcomesOf(self) :
         LET c == clear(self, fails)
         IN  /\ lib' = Closed(lib, c.calls)
             /\ clearLog' = c.calls
             /\ last' = [op |-> "__enter__", arg |-> None,
                         res |-> IF c.res = "ok" THEN e ELSE c.res]
    /\ pc' = "returned"
    /\ who' = None /\ attempt' = 0 /\ e' = None
    /\ UNCHANGED <<self, scope, streak, rlog, connLog, connOuts, cmdVars>>

\* The with body ends, normally (exc = None) or by an exception: __exit__ runs
\* clear() and returns None, so the body's exception goes on to the caller.
Exit ==
    /\ pc = "idle" /\ scope = "in"
    /\ \E exc \in {None, "Exception"}, fails \in CloseOutcomesOf(self) :
         LET c == clear(self, fails)
         IN  /\ lib' = Closed(lib, c.calls)
             /\ clearLog' = c.calls
             /\ last' = [op |-> "__exit__", arg |-> exc,
                         res |-> IF c.res # "ok" THEN c.res
                                 ELSE IF exc = None THEN "ok" ELSE exc]
    /\ pc' = "returned"
    /\ scope' = "out"
    /\ streak' = 0
    /\ UNCHANGED <<self, rlog, connLog, connOuts, retryVars, cmdVars>>

NextConn ==
    \/ Return
    \/ Connect
    \/ Clear
    \/ GetSftp
    \/ Reconnect
    \/ Enter
    \/ RetryAttempt
    \/ RetryExhausted
    \/ EnterExcept
    \/ Exit

SpecConn == InitConn /\ [][NextConn]_vars


\* ============================================================ command text
\* A text is a sequence of characters; a fixed text of the code that holds no
\* character of interest is one element.
Newline == "\n"
Quote == "\""
Backslash == "\\"
SudoPrefix == "sudo -S bash -c "
Commands == {<<"a">>, <<"a", Quote>>, <<Backslash, Quote>>}
Paths == {<<"d">>}

\* cmd.replace('"', '\\"')
RECURSIVE replace_quotes(_)
replace_quotes(text) ==
    IF text = <<>> THEN <<>>
    ELSE (IF Head(text) = Quote THEN <<Backslash, Quote>> ELSE <<Head(text)>>)
         \o replace_quotes(Tail(text))

\* (mutant) the command is sent as it is, whatever sudo_mode says.
command_line_plain(command, sudo_mode) == command \o <<Newline>>

\* cmd = "%s\n" % command, and under sudo_mode
\* cmd = 'sudo -S bash -c "%s"' % cmd.replace('"', '\\"')
command_line(command, sudo_mode) ==
    LET cmd == command \o <<Newline>>
    IN  IF sudo_mode
        THEN <<SudoPrefix, Quote>> \o replace_quotes(cmd) \o <<Quote>>
        ELSE cmd

\* ------------------------------------------------------- SSHClient.get_sudo
\* get_sudo.__enter__
sudo_enter(s) == [s EXCEPT !.sudo_mode = TRUE]

\* (mutant) __exit__ that resets the flag only when the body ended normally.
sudo_exit_on_success(s, exc) ==
    IF exc = None THEN [s EXCEPT !.sudo_mode = FALSE] ELSE s

\* get_sudo.__exit__(exc_type, value, traceback); it returns None, so the
\* with statement re-raises the body's exception.
sudo_exit(s, exc) == [s EXCEPT !.sudo_mode = FALSE]

SudoEnter ==
    /\ pc = "idle" /\ guards < MaxGuards
    /\ self' = sudo_enter(self)
    /\ guards' = guards + 1
    /\ last' = [op |-> "sudo.__enter__", arg |-> None, res |-> "ok"]
    /\ pc' = "returned"
    /\ UNCHANGED <<fileVars, trace, lib, scope, streak, retryVars, connLogs,
                   chans, result, raised>>
    /\ UNCHANGED stream

SudoExit ==
    /\ pc = "idle" /\ guards > 0
    /\ \E exc \in {None, "Exception"} :
         /\ self' = sudo_exit(self, exc)
         /\ last' = [op |-> "sudo.__exit__", arg |-> exc,
                     res |-> IF exc = None THEN "ok" ELSE exc]
    /\ guards' = guards - 1
    /\ pc' = "returned"
    /\ UNCHANGED <<fileVars, trace, lib, scope, streak, retryVars, connLogs,
                   chans, result, raised>>
    /\ UNCHANGED stream

\* -------------------------------------------------- SSHClient.execute_async
\* (mutant) execute_async that answers the sudo prompt before the command is
\* issued on the channel.
execute_async_early(s, l, command, merge_stderr, closed) ==
    IF s._ssh = 0 \/ ~l.connected
    THEN [chans |-> <<>>, res |-> "AttributeError"]
    ELSE LET c == [host |-> s.host, command |-> command,
                   combine |-> merge_stderr,
                   cmd |-> command_line(command, s.sudo_mode),
                   closed |-> closed, stdin |-> <<>>,
                   ev |-> <<"open_session", "exec_command">>]
         IN  [chans |-> <<IF s.sudo_mode /\ ~closed
                          THEN [c EXCEPT !.stdin = <<<<s.password, Newline>>>>,
                                         !.ev = <<"open_session", "stdin.write",
                                                  "stdin.flush", "exec_command">>]
                          ELSE c>>,
              res |-> "ok"]

\* execute_async(command, merge_stderr): the channel it opens on the session's
\* transport, the command line it issues there and what it writes to the
\* channel's stdin.  closed is stdout.channel.closed when it is looked at, right
\* after exec_command.  Without an ssh client or a transport,
\* self._ssh.get_transport().open_session fails with an AttributeError.
execute_async(s, l, command, merge_stderr, closed) ==
    IF s._ssh = 0 \/ ~l.connected
    THEN [chans |-> <<>>, res |-> "AttributeError"]
    ELSE LET c == [host |-> s.host, command |-> command,
                   combine |-> merge_stderr,
                   cmd |-> command_line(command, s.sudo_mode),
                   closed |-> closed, stdin |-> <<>>,
                   ev |-> <<"open_session", "exec_command">>]
         IN  [chans |-> <<IF s.sudo_mode /\ ~closed
                          THEN [c EXCEPT !.stdin = <<<<s.password, Newline>>>>,
                                         !.ev = @ \o <<"stdin.write",
                                                       "stdin.flush">>]
                          ELSE c>>,
              res |-> "ok"]

\* ------------------------------------------------------- SSHClient.execute
\* What the remote process does: the lines it writes and its exit status.  A
\* line is a byte string; Undecodable is one whose bytes are not valid UTF-8.
ExitCodes == {0, 1, 2}
Undecodable == "\\xff"
Procs == [out : {<<>>, <<"o1", "o2">>, <<"o1", Undecodable>>},
          err : {<<>>, <<"e1">>},
          exit : ExitCodes]
\* Where the channel fails while execute reads from it, if it does: the call
\* that raises.
Fails == {None, "stdout.read", "stderr.read", "recv_exit_status"}
ChannelError == "socket.error"

\* CommandResult.is_ok
is_ok(r) == r.exit_code = 0

\* CommandResult._list_to_string(key), as far as execute depends on it:
\* (''.join(self[key])).decode('utf-8') raises on bytes that are not UTF-8.
_list_to_string(lines) ==
    IF \E i \in 1..Len(lines) : lines[i] = Undecodable
    THEN "UnicodeDecodeError"
    ELSE "ok"

\* the "if verbose:" block at the end of execute: how it ends
log_result(verbose, r) ==
    IF ~verbose THEN "ok"
    ELSE IF Len(r.stdout) > 0 /\ _list_to_string(r.stdout) # "ok"
    THEN _list_to_string(r.stdout)
    ELSE IF Len(r.stderr) > 0 /\ _list_to_string(r.stderr) # "ok"
    THEN _list_to_string(r.stderr)
    ELSE "ok"

\* The calls execute makes on the channel and its three files after
\* execute_async returned, up to the one that raises, if one does.
reads(fail) ==
    IF fail = "stdout.read" THEN <<"stdout.read">>
    ELSE IF fail = "stderr.read" THEN <<"stdout.read", "stderr.read">>
    ELSE IF fail = "recv_exit_status"
    THEN <<"stdout.read", "stderr.read", "recv_exit_status">>
    ELSE <<"stdout.read", "stderr.read", "recv_exit_status",
           "stdin.close", "stdout.close", "stderr.close", "chan.close">>

\* execute(command, verbose, merge_stderr): execute_async, both streams read
\* to their end, the exit status, the four closes, the logging, the
\* CommandResult.  Nothing in it catches an exception.
execute(s, l, command, verbose, merge_stderr, closed, proc, fail) ==
    LET a == execute_async(s, l, command, merge_stderr, closed)
        r == [stdout |-> IF merge_stderr THEN proc.out \o proc.err
                         ELSE proc.out,
              stderr |-> IF merge_stderr THEN <<>> ELSE proc.err,
              exit_code |-> proc.exit]
    IN  IF a.res # "ok"
        THEN [chans |-> a.chans, result |-> <<>>, raised |-> <<>>, res |-> a.res]
        ELSE LET chan == [a.chans[1] EXCEPT !.ev = @ \o reads(fail)]
             IN  IF fail # None
                 THEN [chans |-> <<chan>>, result |-> <<>>, raised |-> <<>>,
                       res |-> ChannelError]
                 ELSE IF log_result(verbose, r) # "ok"
                 THEN [chans |-> <<chan>>, result |-> <<>>, raised |-> <<>>,
                       res |-> log_result(verbose, r)]
                 ELSE [chans |-> <<chan>>, result |-> <<r>>, raised |-> <<>>,
                       res |-> "ok"]

CalledProcessError(command, returncode, output) ==
    [cmd |-> command, returncode |-> returncode, output |-> output]

\* (mutant) check_call whose error carries the captured stdout only.
check_call_stdout(s, l, command, verbose, closed, proc, fail) ==
    LET r == execute(s, l, command, verbose, FALSE, closed, proc, fail)
    IN  IF r.res = "ok" /\ r.result[1].exit_code # 0
        THEN [chans |-> r.chans, result |-> <<>>,
              raised |-> <<CalledProcessError(command, r.result[1].exit_code,
                              r.result[1].stdout)>>,
              res |-> "CalledProcessError"]
        ELSE r

\* check_call(command, verbose)
check_call(s, l, command, verbose, closed, proc, fail) ==
    LET r == execute(s, l, command, verbose, FALSE, closed, proc, fail)
    IN  IF r.res = "ok" /\ r.result[1].exit_code # 0
        THEN [chans |-> r.chans, result |-> <<>>,
              raised |-> <<CalledProcessError(command, r.result[1].exit_code,
                              r.result[1].stdout \o r.result[1].stderr)>>,
              res |-> "CalledProcessError"]
        ELSE r

\* (mutant) check_stderr that does not look at stderr.
check_stderr_lenient(s, l, command, verbose, closed, proc, fail) ==
    check_call(s, l, command, verbose, closed, proc, fail)

\* check_stderr(command, verbose)
check_stderr(s, l, command, verbose, closed, proc, fail) ==
    LET r == check_call(s, l, command, verbose, closed, proc, fail)
    IN  IF r.res = "ok" /\ r.result[1].stderr # <<>>
        THEN [chans |-> r.chans, result |-> <<>>,
              raised |-> <<CalledProcessError(command, r.result[1].exit_code,
                              r.result[1].stdout \o r.result[1].stderr)>>,
              res |-> "CalledProcessError"]
        ELSE r

\* exists(path): self._sftp.lstat(path); an IOError (the path is not there, or
\* the sftp client is closed) gives False, any other exception goes on.
exists(s, l, opens, there) ==
    LET g == _sftp(s, l, opens)
    IN  [self |-> g.self, lib |-> g.lib, res |-> g.res,
         value |-> /\ g.res = "ok"
                   /\ g.self._sftp_client \in g.lib.unclosed["sftp"]
                   /\ there]

\* mkdir(path)
mkdir(s, l, path, opens, there, closed, proc, fail) ==
    LET x == exists(s, l, opens, there)
    IN  IF x.res # "ok" \/ x.value
        THEN [self |-> x.self, lib |-> x.lib, chans |-> <<>>, result |-> <<>>,
              raised |-> <<>>, res |-> x.res]
        ELSE LET r == execute(x.self, x.lib,
                              <<"mkdir -p ">> \o path \o <<Newline>>,
                              TRUE, FALSE, closed, proc, fail)
             IN  [self |-> x.self, lib |-> x.lib, chans |-> r.chans,
                  result |-> <<>>, raised |-> <<>>, res |-> r.res]

\* rm_rf(path)
rm_rf(s, l, path, closed, proc, fail) ==
    LET r == execute(s, l, <<"rm -rf ">> \o path, TRUE, FALSE, closed, proc,
                     fail)
    IN  [chans |-> r.chans, result |-> <<>>, raised |-> <<>>, res |-> r.res]

\* ------------------------------------------------ SSHClient.execute_together
\* The sessions execute_together can be given: this one, as it is now, and
\* connected sessions to other hosts, each with its own sudo_mode.
PeerHosts == {"B", "C"}
Me(s, l) ==
    [host |-> s.host, sudo_mode |-> s.sudo_mode,
     connected |-> s._ssh # 0 /\ l.connected]
Sessions(s, l) ==
    {Me(s, l)} \cup [host : PeerHosts, sudo_mode : BOOLEAN, connected : {TRUE}]
\* lists of sessions to different hosts
RemoteLists(s, l) ==
    UNION {{rs \in [1..n -> Sessions(s, l)] :
               \A i, j \in 1..n : i # j => rs[i].host # rs[j].host}
           : n \in 0..MaxRemotes}
\* The orders "for remote, chan in futures.items()" can take n sessions in:
\* futures is a dict keyed by the session objects, and the code asks for no
\* order of its items.
Orders(n) ==
    {o \in [1..n -> 1..n] : \A i, j \in 1..n : i # j => o[i] # o[j]}

\* The first loop, from remote i on: the command line is built for the
\* remote's own sudo_mode and issued on a channel of the remote's transport.
\* Nothing is written to the channel's stdin.
RECURSIVE issue(_, _, _)
issue(remotes, command, i) ==
    IF i > Len(remotes) THEN [chans |-> <<>>, res |-> "ok"]
    ELSE IF ~remotes[i].connected
    THEN [chans |-> <<>>, res |-> "AttributeError"]
    ELSE LET c == [host |-> remotes[i].host, command |-> command,
                   combine |-> FALSE,
                   cmd |-> command_line(command, remotes[i].sudo_mode),
                   closed |-> FALSE, stdin |-> <<>>,
                   ev |-> <<"open_session", "exec_command">>]
             r == issue(remotes, command, i + 1)
         IN  [chans |-> <<c>> \o r.chans, res |-> r.res]

\* errors[host] = ret
Put(errors, host, ret) ==
    [h \in DOMAIN errors \cup {host} |-> IF h = host THEN ret ELSE errors[h]]

\* (mutant) a second loop that keeps every exit status, zero or not.
RECURSIVE collect_all(_, _, _, _, _)
collect_all(remotes, exits, order, k, errors) ==
    IF k > Len(remotes) THEN [trace |-> <<>>, errors |-> errors]
    ELSE LET i == order[k]
             r == collect_all(remotes, exits, order, k + 1,
                              Put(errors, remotes[i].host, exits[i]))
         IN  [trace |-> <<[ev |-> "recv_exit_status", host |-> remotes[i].host,
                           ret |-> exits[i]]>> \o r.trace,
              errors |-> r.errors]

\* (mutant) a second loop that stops at the first non-zero exit status.
RECURSIVE collect_short(_, _, _, _, _)
collect_short(remotes, exits, order, k, errors) ==
    IF k > Len(remotes) THEN [trace |-> <<>>, errors |-> errors]
    ELSE LET i == order[k]
             here == <<[ev |-> "recv_exit_status", host |-> remotes[i].host,
                        ret |-> exits[i]]>>
         IN  IF exits[i] # 0
             THEN [trace |-> here,
                   errors |-> Put(errors, remotes[i].host, exits[i])]
             ELSE LET r == collect_short(remotes, exits, order, k + 1, errors)
                  IN  [trace |-> here \o r.trace, errors |-> r.errors]

\* The second loop, from its k-th round on: the channel of remote order[k]
\* is waited on for its exit status, and a non-zero one is kept in errors
\* under the remote's host.
RECURSIVE collect(_, _, _, _, _)
collect(remotes, exits, order, k, errors) ==
    IF k > Len(remotes) THEN [trace |-> <<>>, errors |-> errors]
    ELSE LET i == order[k]
             r == collect(remotes, exits, order, k + 1,
                          IF exits[i] # 0
                          THEN Put(errors, remotes[i].host, exits[i])
                          ELSE errors)
         IN  [trace |-> <<[ev |-> "recv_exit_status", host |-> remotes[i].host,
                           ret |-> exits[i]]>> \o r.trace,
              errors |-> r.errors]

\* execute_together(remotes, command); exits[i] is the exit status of the
\* command on remote i.  It returns None, or raises
\* CalledProcessError(command, errors) when errors is not empty.
execute_together(remotes, command, exits, order) ==
    LET f == issue(remotes, command, 1)
        issued == [i \in 1..Len(f.chans) |->
                     [ev |-> "exec_command", host |-> f.chans[i].host, ret |-> 0]]
        g == collect(remotes, exits, order, 1, <<>>)
        waited == [i \in 1..Len(f.chans) |->
                     [f.chans[i] EXCEPT !.ev = Append(@, "recv_exit_status")]]
    IN  IF f.res # "ok"
        THEN [chans |-> f.chans, trace |-> issued, raised |-> <<>>,
              res |-> f.res]
        ELSE IF DOMAIN g.errors # {}
        THEN [chans |-> waited, trace |-> issued \o g.trace,
              raised |-> <<CalledProcessError(command, g.errors, None)>>,
              res |-> "CalledProcessError"]
        ELSE [chans |-> waited, trace |-> issued \o g.trace, raised |-> <<>>,
              res |-> "ok"]

\* ----------------------------------------------------------- command actions
ExecuteAsync ==
    /\ pc = "idle"
    /\ \E command \in Commands, merge_stderr \in BOOLEAN, closed \in BOOLEAN :
         LET r == execute_async(self, lib, command, merge_stderr, closed)
         IN  /\ chans' = r.chans
             /\ last' = [op |-> "execute_async", arg |-> command, res |-> r.res]
    /\ pc' = "returned"
    /\ UNCHANGED <<fileVars, trace, self, lib, scope, streak, retryVars,
                   connLogs, guards,
                   result, raised>>
    /\ UNCHANGED stream

Execute ==
    /\ pc = "idle"
    /\ \E command \in Commands, verbose \in BOOLEAN, merge_stderr \in BOOLEAN,
          closed \in BOOLEAN, proc \in Procs, fail \in Fails :
         LET r == execute(self, lib, command, verbose, merge_stderr, closed,
                          proc, fail)
         IN  /\ chans' = r.chans
             /\ result' = r.result
             /\ last' = [op |-> "execute",
                         arg |-> [command |-> command, verbose |-> verbose,
                                  merge_stderr |-> merge_stderr,
                                  proc |-> proc, fail |-> fail],
                         res |-> r.res]
    /\ pc' = "returned"
    /\ UNCHANGED <<fileVars, trace, self, lib, scope, streak, retryVars,
                   connLogs, guards, raised>>
    /\ UNCHANGED stream

CheckCall ==
    /\ pc = "idle"
    /\ \E command \in Commands, verbose \in BOOLEAN, closed \in BOOLEAN,
          proc \in Procs, fail \in Fails :
         LET r == check_call(self, lib, command, verbose, closed, proc, fail)
         IN  /\ chans' = r.chans
             /\ result' = r.result
             /\ raised' = r.raised
             /\ last' = [op |-> "check_call",
                         arg |-> [command |-> command, verbose |-> verbose,
                                  merge_stderr |-> FALSE,
                                  proc |-> proc, fail |-> fail],
                         res |-> r.res]
    /\ pc' = "returned"
    /\ UNCHANGED <<fileVars, trace, self, lib, scope, streak, retryVars,
                   connLogs, guards>>
    /\ UNCHANGED stream

CheckStderr ==
    /\ pc = "idle"
    /\ \E command \in Commands, verbose \in BOOLEAN, closed \in BOOLEAN,
          proc \in Procs, fail \in Fails :
         LET r == check_stderr(self, lib, command, verbose, closed, proc, fail)
         IN  /\ chans' = r.chans
             /\ result' = r.result
             /\ raised' = r.raised
             /\ last' = [op |-> "check_stderr",
                         arg |-> [command |-> command, verbose |-> verbose,
                                  merge_stderr |-> FALSE,
                                  proc |-> proc, fail |-> fail],
                         res |-> r.res]
    /\ pc' = "returned"
    /\ UNCHANGED <<fileVars, trace, self, lib, scope, streak, retryVars,
                   connLogs, guards>>
    /\ UNCHANGED stream

Mkdir ==
    /\ pc = "idle"
    /\ FreeHandles(lib.unclosed["sftp"], 0) # {}
    /\ \E path \in Paths, opens \in BOOLEAN, there \in BOOLEAN,
          closed \in BOOLEAN, proc \in Procs, fail \in Fails :
         LET r == mkdir(self, lib, path, opens, there, closed, proc, fail)
         IN  /\ self' = r.self
             /\ lib' = r.lib
             /\ chans' = r.chans
             /\ last' = [op |-> "mkdir", arg |-> path, res |-> r.res]
    /\ pc' = "returned"
    /\ UNCHANGED <<fileVars, trace, scope, streak, retryVars, connLogs, guards,
                   result, raised>>
    /\ UNCHANGED stream

RmRf ==
    /\ pc = "idle"
    /\ \E path \in Paths, closed \in BOOLEAN, proc \in Procs, fail \in Fails :
         LET r == rm_rf(self, lib, path, closed, proc, fail)
         IN  /\ chans' = r.chans
             /\ last' = [op |-> "rm_rf", arg |-> path, res |-> r.res]
    /\ pc' = "returned"
    /\ UNCHANGED <<fileVars, trace, self, lib, scope, streak, retryVars,
                   connLogs, guards, result, raised>>
    /\ UNCHANGED stream

ExecuteTogether ==
    /\ pc = "idle"
    /\ \E remotes \in RemoteLists(self, lib), command \in Commands :
         \E exits \in [1..Len(remotes) -> ExitCodes],
            order \in Orders(Len(remotes)) :
            LET r == execute_together(remotes, command, exits, order)
            IN  /\ chans' = r.chans
                /\ trace' = r.trace
                /\ raised' = r.raised
                /\ last' = [op |-> "execute_together",
                            arg |-> [remotes |-> remotes, command |-> command,
                                     exits |-> exits],
                            res |-> r.res]
    /\ pc' = "returned"
    /\ UNCHANGED <<fileVars, self, lib, scope, streak, retryVars, connLogs,
                   guards, result>>
    /\ UNCHANGED stream

\* A session at rest in a state its life cycle reaches: never connected,
\* connected (after reconnect()), or disposed of (after clear()).
InitCmd ==
    /\ \E pw \in {None, "secret"}, at \in {"constructed", "connected", "closed"} :
         /\ self = [Constructed(0, pw, None) EXCEPT
                       !._ssh = IF at = "constructed" THEN 0 ELSE 1]
         /\ lib = IF at = "connected"
                  THEN [unclosed |-> [k \in Kinds |-> IF k = "ssh" THEN {1} ELSE {}],
                        connected |-> TRUE]
                  ELSE NoHandles
    /\ pc = "idle" /\ who = None /\ attempt = 0 /\ e = None
    /\ scope = "out" /\ streak = 0
    /\ last = NoLast
    /\ rlog = <<>> /\ connLog = <<>> /\ connOuts = <<>> /\ clearLog = <<>>
    /\ guards = 0 /\ chans = <<>> /\ result = <<>> /\ raised = <<>>
    /\ trace = <<>> /\ NoFileCalls
    /\ stream = NoStream

NextCmd ==
    \/ Return
    \/ SudoEnter
    \/ SudoExit
    \/ ExecuteAsync
    \/ Execute
    \/ CheckCall
    \/ CheckStderr
    \/ Mkdir
    \/ RmRf
    \/ ExecuteTogether

SpecCmd == InitCmd /\ [][NextCmd]_vars

\* ============================================================ file transfer
\* A path is the sequence of its components.  What is at a path: "none",
\* "file" or "dir".
Target == <<"t">>
LocalTarget == <<"l">>
\* what upload can be given as source: a local file or a local directory,
\* both with base name "s"
Sources == {[kind |-> "file", name |-> "s"], [kind |-> "dir", name |-> "s"]}
\* os.walk(source) of the local directory: for each directory, top down, its
\* path relative to source and its files
Walk == <<[dir |-> <<>>, files |-> <<>>],
          [dir |-> <<"a">>, files |-> <<"b.txt">>],
          [dir |-> <<"a", "c">>, files |-> <<"d.txt">>]>>
\* where upload puts the source: target, or target/basename(source)
Roots == {Target, Target \o <<"s">>}
DirsUnder(root) == {root \o Walk[k].dir : k \in 1..Len(Walk)}
FilesUnder(root) ==
    UNION {{root \o Walk[k].dir \o <<Walk[k].files[i]>> :
               i \in 1..Len(Walk[k].files)} : k \in 1..Len(Walk)}
RemotePaths == UNION {DirsUnder(root) \cup FilesUnder(root) : root \in Roots}
\* what download can be asked for
Destinations == {Target, Target \o <<"a", "b.txt">>}
basename(path) == path[Len(path)]
LocalPaths ==
    {LocalTarget} \cup {LocalTarget \o <<basename(d)>> : d \in Destinations}

Parent(path) == SubSeq(path, 1, Len(path) - 1)
\* the directory a path is in is there (the working directory always is)
InDir(fs, path) == Len(path) = 1 \/ fs[Parent(path)] = "dir"

\* self._sftp.lstat(path) on a client that is live (open, not closed)
lstat(fs, live, path) ==
    IF live /\ fs[path] # "none" THEN fs[path] ELSE "IOError"

\* isdir(path), once self._sftp gave the client
isdir(fs, live, path) == lstat(fs, live, path) = "dir"

\* the shell's "mkdir -p path": path and the directories above it are made,
\* unless one of them is a file or the command is denied; its exit status
mkdir_p_exit(fs, path, denied) ==
    IF denied \/ \E n \in 1..Len(path) : fs[SubSeq(path, 1, n)] = "file"
    THEN 1 ELSE 0
mkdir_p(fs, path, denied) ==
    IF mkdir_p_exit(fs, path, denied) # 0 THEN fs
    ELSE [p \in DOMAIN fs |->
            IF \E n \in 1..Len(path) : p = SubSeq(path, 1, n)
            THEN "dir" ELSE fs[p]]

\* The calls of upload's loops, in order: for every directory of the walk
\* self.mkdir(targetdir), then for each of its files the exists / unlink /
\* put of remote_path.
RECURSIVE steps(_, _)
steps(root, k) ==
    IF k > Len(Walk) THEN <<>>
    ELSE <<[op |-> "mkdir", path |-> root \o Walk[k].dir]>>
         \o [i \in 1..Len(Walk[k].files) |->
               [op |-> "put", path |-> root \o Walk[k].dir \o <<Walk[k].files[i]>>]]
         \o steps(root, k + 1)

\* self._sftp.put(local_path, path) on a client that is live: the file is
\* written where the directory is there and no directory is in its place.
put(fs, live, path) ==
    IF ~live \/ ~InDir(fs, path) \/ fs[path] = "dir"
    THEN [rfs |-> fs, ops |-> <<>>, res |-> "IOError"]
    ELSE [rfs |-> [fs EXCEPT ![path] = "file"],
          ops |-> <<[op |-> "put", path |-> path, was |-> fs[path]]>>,
          res |-> "ok"]

\* (mutant) the file is put over what is there, without unlink.
store_over(fs, live, path) == put(fs, live, path)

\* if self.exists(remote_path): self._sftp.unlink(remote_path)
\* self._sftp.put(local_path, remote_path)
store(fs, live, path) ==
    LET there == lstat(fs, live, path) # "IOError"
        unlink == <<[op |-> "unlink", path |-> path, was |-> fs[path]]>>
    IN  IF there /\ fs[path] = "dir"
        THEN [rfs |-> fs, ops |-> <<>>, res |-> "IOError"]
        ELSE LET gone == IF there THEN [fs EXCEPT ![path] = "none"] ELSE fs
                 p == put(gone, live, path)
             IN  [rfs |-> p.rfs,
                  ops |-> (IF there THEN unlink ELSE <<>>)
                             \o [i \in 1..Len(p.ops) |->
                                   [p.ops[i] EXCEPT !.was = fs[path]]],
                  res |-> p.res]

\* self.mkdir(path) in upload's loop; m is what mkdir(path) gave: the
\* command was issued when it got a channel, and its effect is that of the
\* shell's mkdir -p.
made(m, fs, path, no) ==
    IF m.chans = <<>> THEN [rfs |-> fs, ops |-> <<>>, res |-> m.res]
    ELSE [rfs |-> mkdir_p(fs, path, no),
          ops |-> <<[op |-> "mkdir", path |-> path, was |-> fs[path]]>>,
          res |-> m.res]

\* one call of upload's loops; denied are the directories the remote host
\* refuses to make
step(s, l, fs, live, call, denied) ==
    IF call.op = "mkdir"
    THEN made(mkdir(s, l, call.path, TRUE, fs[call.path] # "none", FALSE,
                    [out |-> <<>>, err |-> <<>>,
                     exit |-> mkdir_p_exit(fs, call.path,
                                           call.path \in denied)],
                    None),
              fs, call.path, call.path \in denied)
    ELSE store(fs, live, call.path)

\* what a call did, followed by what the calls after it did
join(p, r) == [rfs |-> r.rfs, ops |-> p.ops \o r.ops, res |-> r.res]

\* upload's loops from call k of todo on: they end with the first call that
\* raises.
RECURSIVE run(_, _, _, _, _, _, _)
RECURSIVE after(_, _, _, _, _, _, _)
after(p, s, l, live, todo, k, denied) ==
    IF p.res # "ok" THEN p
    ELSE join(p, run(s, l, p.rfs, live, todo, k + 1, denied))
run(s, l, fs, live, todo, k, denied) ==
    IF k > Len(todo) THEN [rfs |-> fs, ops |-> <<>>, res |-> "ok"]
    ELSE after(step(s, l, fs, live, todo[k], denied),
               s, l, live, todo, k, denied)

\* the session as self._sftp left it, with what the file calls did
session(g, r) ==
    [self |-> g.self, lib |-> g.lib, rfs |-> r.rfs, ops |-> r.ops,
     res |-> r.res]
\* whether the sftp client self._sftp gave is open
Live(g) == g.res = "ok" /\ g.self._sftp_client \in g.lib.unclosed["sftp"]

\* upload(source, target), from the first self._sftp on, which gave g
uploading(g, fs, source, target, denied) ==
    IF g.res # "ok"
    THEN session(g, [rfs |-> fs, ops |-> <<>>, res |-> g.res])
    ELSE IF source.kind # "dir"
    THEN session(g, put(fs, Live(g),
                        IF isdir(fs, Live(g), target)
                        THEN target \o <<source.name>> ELSE target))
    ELSE session(g, run(g.self, g.lib, fs, Live(g),
                        steps(IF isdir(fs, Live(g), target)
                              THEN target \o <<source.name>> ELSE target, 1),
                        1, denied))

\* upload(source, target)
upload(s, l, fs, source, target, opens, denied) ==
    uploading(_sftp(s, l, opens), fs, source, target, denied)

\* self._sftp.get(destination, path): the local file at path is written; goes
\* says whether the transfer goes through.
get(lf, live, path, goes) ==
    IF ~live \/ ~goes \/ ~InDir(lf, path) \/ lf[path] = "dir"
    THEN [lfs |-> lf, res |-> "IOError"]
    ELSE [lfs |-> [lf EXCEPT ![path] = "file"], res |-> "ok"]

\* the path download writes to: the target, or target/basename(destination)
\* when the target is a local directory
goal(lf, destination, target) ==
    IF lf[target] = "dir" THEN target \o <<basename(destination)>> ELSE target

\* what download gives: the session as self._sftp left it, the local files,
\* the get it called and the value it returned
gave(g, lf, asked, value, res) ==
    [self |-> g.self, lib |-> g.lib, lfs |-> lf, ops |-> asked,
     retval |-> value, res |-> res]

\* (mutant) download that returns whether it has transferred the file.
downloading_done(g, x, fs, lf, destination, to) ==
    IF g.res # "ok" THEN gave(g, lf, <<>>, <<>>, g.res)
    ELSE IF ~isdir(fs, Live(g), destination)
            /\ lstat(fs, Live(g), destination) # "IOError"
    THEN gave(g, x.lfs,
              <<[op |-> "get", path |-> destination, was |-> lf[to]]>>,
              IF x.res = "ok" THEN <<TRUE>> ELSE <<>>, x.res)
    ELSE gave(g, lf, <<>>, <<FALSE>>, "ok")

\* download(destination, target), from the first self._sftp on, which gave
\* g; lf is the local host's files, to the path written to and x what
\* self._sftp.get does when it is called
downloading(g, x, fs, lf, destination, to) ==
    IF g.res # "ok" THEN gave(g, lf, <<>>, <<>>, g.res)
    ELSE IF ~isdir(fs, Live(g), destination)
            /\ lstat(fs, Live(g), destination) # "IOError"
    THEN gave(g, x.lfs,
              <<[op |-> "get", path |-> destination, was |-> lf[to]]>>,
              IF x.res = "ok" THEN <<x.lfs[to] # "none">> ELSE <<>>, x.res)
    ELSE gave(g, lf, <<>>, <<lf[to] # "none">>, "ok")

\* download(destination, target)
download(s, l, fs, lf, destination, target, opens, goes) ==
    downloading(_sftp(s, l, opens),
                get(lf, Live(_sftp(s, l, opens)),
                    goal(lf, destination, target), goes),
                fs, lf, destination, goal(lf, destination, target))

\* ------------------------------------------------------ file transfer actions
\* the directories the remote host may refuse to make during one upload
Denials == {{}} \cup {{d} : d \in UNION {DirsUnder(root) : root \in Roots}}

Upload ==
    /\ pc = "idle"
    /\ FreeHandles(lib.unclosed["sftp"], 0) # {}
    /\ \E source \in Sources, opens \in BOOLEAN, denied \in Denials :
         LET r == upload(self, lib, rfs, source, Target, opens, denied)
         IN  /\ self' = r.self
             /\ lib' = r.lib
             /\ rfs' = r.rfs
             /\ ops' = r.ops
             /\ last' = [op |-> "upload",
                         arg |-> [source |-> source, target |-> Target,
                                  was |-> rfs[Target]],
                         res |-> r.res]
    /\ pc' = "returned"
    /\ UNCHANGED <<lfs, retval, scope, streak, retryVars, connLogs, guards,
                   chans, result, raised, trace>>
    /\ UNCHANGED stream

Download ==
    /\ pc = "idle"
    /\ FreeHandles(lib.unclosed["sftp"], 0) # {}
    /\ \E destination \in Destinations, opens \in BOOLEAN, goes \in BOOLEAN :
         LET r == download(self, lib, rfs, lfs, destination, LocalTarget,
                           opens, goes)
         IN  /\ self' = r.self
             /\ lib' = r.lib
             /\ lfs' = r.lfs
             /\ ops' = r.ops
             /\ retval' = r.retval
             /\ last' = [op |-> "download",
                         arg |-> [destination |-> destination,
                                  target |-> LocalTarget,
                                  remote |-> rfs[destination], was |-> lfs],
                         res |-> r.res]
    /\ pc' = "returned"
    /\ UNCHANGED <<rfs, scope, streak, retryVars, connLogs, guards, chans,
                   result, raised, trace>>
    /\ UNCHANGED stream

\* A connected session at rest, a remote host where at most the target is
\* there and a local host where at most the target and a file in it are.
InitFile ==
    /\ self = [Constructed(0, None, None) EXCEPT !._ssh = 1]
    /\ lib = [unclosed |-> [k \in Kinds |-> IF k = "ssh" THEN {1} ELSE {}],
              connected |-> TRUE]
    /\ \E k \in {"none", "file", "dir"} :
         rfs = [p \in RemotePaths |-> IF p = Target THEN k ELSE "none"]
    /\ \E k \in {"none", "file", "dir"}, inside \in {"none", "file"} :
         lfs = [p \in LocalPaths |->
                  IF p = LocalTarget THEN k
                  ELSE IF k = "dir" THEN inside
                  ELSE "none"]
    /\ ops = <<>> /\ retval = <<>>
    /\ pc = "idle" /\ who = None /\ attempt = 0 /\ e = None
    /\ scope = "out" /\ streak = 0
    /\ last = NoLast
    /\ rlog = <<>> /\ connLog = <<>> /\ connOuts = <<>> /\ clearLog = <<>>
    /\ guards = 0 /\ chans = <<>> /\ result = <<>> /\ raised = <<>>
    /\ trace = <<>>
    /\ stream = NoStream

NextFile ==
    \/ Return
    \/ Upload
    \/ Download

SpecFile == InitFile /\ [][NextFile]_vars

\* ============================================================== os_cli.py
\* The commands the CLI clients pass: ASCII words and one with a character
\* outside ASCII (U+00E9), whose UTF-8 encoding is two bytes.
Eacute == "U+00E9"
CliCommands == {<<"image-list">>, <<"image-show", Eacute>>}
Openrc == ". openrc && "
Whitespace == {Newline, " "}

\* command.encode('utf-8')
RECURSIVE encode(_)
encode(text) ==
    IF text = <<>> THEN <<>>
    ELSE (IF Head(text) = Eacute THEN <<"\\xc3", "\\xa9">>
          ELSE <<Head(text)>>) \o encode(Tail(text))

\* ''.join(lines): each line as it was read, its newline included
RECURSIVE joined(_)
joined(lines) ==
    IF lines = <<>> THEN <<>>
    ELSE <<Head(lines), Newline>> \o joined(Tail(lines))

\* unicode.strip()
RECURSIVE lstrip(_)
lstrip(text) ==
    IF text # <<>> /\ Head(text) \in Whitespace THEN lstrip(Tail(text))
    ELSE text
RECURSIVE rstrip(_)
rstrip(text) ==
    IF text # <<>> /\ text[Len(text)] \in Whitespace
    THEN rstrip(SubSeq(text, 1, Len(text) - 1))
    ELSE text
strip(text) == rstrip(lstrip(text))

\* CommandResult.stdout_string and stderr_string, where the bytes decode
stdout_string(r) == strip(joined(r.stdout))
stderr_string(r) == strip(joined(r.stderr))

\* exceptions.CommandFailed(returncode, cmd, output, stderr)
CommandFailed(returncode, cmd, output, stderr) ==
    [type |-> "CommandFailed", returncode |-> returncode, cmd |-> cmd,
     output |-> output, stderr |-> stderr]

\* (mutant) the part of os_execute after remote.execute that does not look at
\* fail_ok.
finish_strict(command, x, fail_ok, merge_stderr) ==
    IF x.res # "ok"
    THEN [chans |-> x.chans, result |-> <<>>, raised |-> <<>>,
          retval |-> <<>>, res |-> x.res]
    ELSE IF ~is_ok(x.result[1])
    THEN [chans |-> x.chans, result |-> x.result,
          raised |-> <<CommandFailed(x.result[1].exit_code, command,
                                     stdout_string(x.result[1]),
                                     stderr_string(x.result[1]))>>,
          retval |-> <<>>, res |-> "CommandFailed"]
    ELSE [chans |-> x.chans, result |-> x.result, raised |-> <<>>,
          retval |-> <<(IF merge_stderr THEN stderr_string(x.result[1])
                        ELSE <<>>) \o stdout_string(x.result[1])>>,
          res |-> "ok"]

\* os_execute after "result = remote.execute(command)" ended as x: an
\* exception of execute goes on to the caller; CommandFailed when the command
\* failed and fail_ok is not set; else the text returned, the standard error
\* first when merge_stderr is set.
finish(command, x, fail_ok, merge_stderr) ==
    IF x.res # "ok"
    THEN [chans |-> x.chans, result |-> <<>>, raised |-> <<>>,
          retval |-> <<>>, res |-> x.res]
    ELSE IF ~fail_ok /\ ~is_ok(x.result[1])
    THEN [chans |-> x.chans, result |-> x.result,
          raised |-> <<CommandFailed(x.result[1].exit_code, command,
                                     stdout_string(x.result[1]),
                                     stderr_string(x.result[1]))>>,
          retval |-> <<>>, res |-> "CommandFailed"]
    ELSE [chans |-> x.chans, result |-> x.result, raised |-> <<>>,
          retval |-> <<(IF merge_stderr THEN stderr_string(x.result[1])
                        ELSE <<>>) \o stdout_string(x.result[1])>>,
          res |-> "ok"]

\* os_execute(remote, command, fail_ok, merge_stderr): the command is encoded
\* and prefixed, and run by remote.execute with its defaults (verbose on,
\* stderr not merged into stdout on the channel).
os_execute(s, l, command, fail_ok, merge_stderr, closed, proc, fail) ==
    finish(<<Openrc>> \o encode(command),
           execute(s, l, <<Openrc>> \o encode(command), TRUE, FALSE, closed,
                   proc, fail),
           fail_ok, merge_stderr)

OsExecute ==
    /\ pc = "idle"
    /\ \E command \in CliCommands, fail_ok \in BOOLEAN,
          merge_stderr \in BOOLEAN, closed \in BOOLEAN, proc \in Procs,
          fail \in Fails :
         LET r == os_execute(self, lib, command, fail_ok, merge_stderr,
                             closed, proc, fail)
         IN  /\ chans' = r.chans
             /\ result' = r.result
             /\ raised' = r.raised
             /\ retval' = r.retval
             /\ last' = [op |-> "os_execute",
                         arg |-> [command |-> command, fail_ok |-> fail_ok,
                                  merge_stderr |-> merge_stderr,
                                  proc |-> proc, fail |-> fail],
                         res |-> r.res]
    /\ pc' = "returned"
    /\ UNCHANGED <<rfs, lfs, ops, trace, self, lib, scope, streak, retryVars,
                   connLogs, guards>>
    /\ UNCHANGED stream

NextCli ==
    \/ Return
    \/ SudoEnter
    \/ SudoExit
    \/ OsExecute

SpecCli == InitCmd /\ [][NextCli]_vars

\* ==================================================== execute, step by step
\* One execute call on a connected session followed call by call, with the
\* remote process and the channel between them.  The process writes its lines
\* one by one and then exits; a line it wrote stays in flight until execute
\* reads it, and the channel takes no more than MaxWindow lines in flight
\* (the window of an SSH channel, which its stdout and stderr data share).
MaxWrites == 3
MaxWindow == 2
LineNames == <<"w1", "w2", "w3", "w4", "w5">>
Programs == UNION {[1..n -> {"out", "err"}] : n \in 0..MaxWrites}
Writes(program) ==
    [i \in 1..Len(program) |-> [fd |-> program[i], line |-> LineNames[i]]]
InFlight(st) == Len(st.outbuf) + Len(st.errbuf)
\* set_combine_stderr(merge_stderr): where a line written to fd arrives
ArrivesOn(st, fd) == IF st.merge \/ fd = "out" THEN "out" ELSE "err"

\* The state after execute_async ended as a and the CommandResult was made.
started(a, verbose, merge_stderr, program, exit) ==
    IF a.res # "ok"
    THEN [NoStream EXCEPT !.pc = "returned", !.res = a.res]
    ELSE [NoStream EXCEPT !.pc = "stdout", !.merge = merge_stderr,
                          !.verbose = verbose, !.todo = Writes(program),
                          !.exit = exit, !.ev = a.chans[1].ev]

\* execute(command, verbose, merge_stderr) is called: execute_async opens the
\* channel and issues the command, the remote process starts.
StreamBegin ==
    /\ stream.pc = "idle"
    /\ \E command \in Commands, verbose \in BOOLEAN, merge_stderr \in BOOLEAN,
          program \in Programs, exit \in ExitCodes :
         stream' = started(execute_async(self, lib, command, merge_stderr,
                                         FALSE),
                           verbose, merge_stderr, program, exit)
    /\ UNCHANGED <<self, lib, pc, who, attempt, e, scope, streak, last, rlog,
                   connLog, connOuts, clearLog, guards, chans, result, raised,
                   trace, rfs, lfs, ops, retval>>

\* everything but stream
Others ==
    <<self, lib, pc, who, attempt, e, scope, streak, last, rlog, connLog,
      connOuts, clearLog, guards, chans, result, raised, trace, rfs, lfs, ops,
      retval>>

\* The remote process writes its next line; it waits while the window is full.
RemoteWrite ==
    /\ stream.pc \in {"stdout", "stderr", "status"}
    /\ stream.todo # <<>>
    /\ InFlight(stream) < MaxWindow
    /\ LET w == Head(stream.todo)
       IN  stream' = [stream EXCEPT
               !.todo = Tail(@),
               !.sent = Append(@, w),
               !.outbuf = IF ArrivesOn(stream, w.fd) = "out"
                          THEN Append(@, w.line) ELSE @,
               !.errbuf = IF ArrivesOn(stream, w.fd) = "err"
                          THEN Append(@, w.line) ELSE @]
    /\ UNCHANGED Others

\* The remote process has written everything and exits.
RemoteExit ==
    /\ stream.pc \in {"stdout", "stderr", "status"}
    /\ stream.todo = <<>> /\ ~stream.exited
    /\ stream' = [stream EXCEPT !.exited = TRUE]
    /\ UNCHANGED Others

\* "for line in stdout: result['stdout'].append(line)": one line
ReadStdout ==
    /\ stream.pc = "stdout" /\ stream.outbuf # <<>>
    /\ stream' = [stream EXCEPT !.stdout = Append(@, Head(stream.outbuf)),
                                !.outbuf = Tail(@),
                                !.ev = Append(@, "stdout.readline")]
    /\ UNCHANGED Others

\* (mutant) the loop over stdout ends as soon as nothing is there to read.
StdoutEof_early ==
    /\ stream.pc = "stdout" /\ stream.outbuf = <<>>
    /\ stream' = [stream EXCEPT !.pc = "stderr",
                                !.ev = Append(@, "stdout.eof")]
    /\ UNCHANGED Others

\* The loop over stdout ends: the stream is at its end, which it is once the
\* process has exited and everything that arrived was read.
StdoutEof ==
    /\ stream.pc = "stdout" /\ stream.outbuf = <<>> /\ stream.exited
    /\ stream' = [stream EXCEPT !.pc = "stderr",
                                !.ev = Append(@, "stdout.eof")]
    /\ UNCHANGED Others

\* "for line in stderr: result['stderr'].append(line)": one line
ReadStderr ==
    /\ stream.pc = "stderr" /\ stream.errbuf # <<>>
    /\ stream' = [stream EXCEPT !.stderr = Append(@, Head(stream.errbuf)),
                                !.errbuf = Tail(@),
                                !.ev = Append(@, "stderr.readline")]
    /\ UNCHANGED Others

\* The loop over stderr ends.
StderrEof ==
    /\ stream.pc = "stderr" /\ stream.errbuf = <<>> /\ stream.exited
    /\ stream' = [stream EXCEPT !.pc = "status",
                                !.ev = Append(@, "stderr.eof")]
    /\ UNCHANGED Others

\* result['exit_code'] = chan.recv_exit_status(): waits for the process's exit
RecvExitStatus ==
    /\ stream.pc = "status" /\ stream.exited
    /\ stream' = [stream EXCEPT !.exit_code = stream.exit,
                                !.pc = "close",
                                !.ev = Append(@, "recv_exit_status")]
    /\ UNCHANGED Others

\* stdin.close(); stdout.close(); stderr.close(); chan.close()
CloseAll ==
    /\ stream.pc = "close"
    /\ stream' = [stream EXCEPT
           !.pc = "log",
           !.ev = @ \o <<"stdin.close", "stdout.close", "stderr.close",
                         "chan.close">>]
    /\ UNCHANGED Others

\* the CommandResult execute has built
Built(st) ==
    [stdout |-> st.stdout, stderr |-> st.stderr, exit_code |-> st.exit_code]

\* The "if verbose:" block and "return result".
LogAndReturn ==
    /\ stream.pc = "log"
    /\ stream' = [stream EXCEPT
           !.pc = "returned",
           !.res = log_result(stream.verbose, Built(stream)),
           !.retval = IF log_result(stream.verbose, Built(stream)) = "ok"
                      THEN <<Built(stream)>> ELSE <<>>,
           !.ev = IF log_result(stream.verbose, Built(stream)) = "ok"
                  THEN Append(@, "return") ELSE @]
    /\ UNCHANGED Others

\* The caller goes on to its next call.
StreamReturn ==
    /\ stream.pc = "returned"
    /\ stream' = NoStream
    /\ UNCHANGED Others

InitStream == InitCmd /\ lib.connected

\* the steps of execute and of the remote side while a call is running
Running ==
    \/ RemoteWrite
    \/ RemoteExit
    \/ ReadStdout
    \/ StdoutEof
    \/ ReadStderr
    \/ StderrEof
    \/ RecvExitStatus
    \/ CloseAll
    \/ LogAndReturn

NextStream ==
    \/ StreamBegin
    \/ Running
    \/ StreamReturn

SpecStream == InitStream /\ [][NextStream]_vars

\* The same with the scheduling execute can count on: its own thread, the
\* transport and the remote process keep running, so a step that stays
\* possible is taken.
SpecStreamFair == SpecStream /\ WF_vars(Running)

\* ==================================================================== claims
IsCall(x) == x.ev = "call"
\* the calls of reconnect()'s body the wrapper has made, in order
calls == SelectSeq(rlog, IsCall)
Failed(i) == calls[i].res # "ok"
Reconnected == pc = "returned" /\ last.op \in {"reconnect", "__enter__"}
NoneOpen == \A k \in Kinds : lib.unclosed[k] = {}

\* C1: when the first two calls of reconnect()'s body raise and the third
\* returns, reconnect() returns normally, the body was called exactly 3 times,
\* and the wrapper slept between every two consecutive calls: no call follows
\* a failed one directly.
C1_ThirdAttemptSucceeds ==
    /\ (Len(calls) >= 3 /\ Failed(1) /\ Failed(2) /\ ~Failed(3))
          => /\ Reconnected /\ last.res = "ok"
             /\ Len(calls) = 3
             /\ Len(rlog) = 5
             /\ rlog[2].ev = "sleep" /\ rlog[2].secs > 0
             /\ rlog[4].ev = "sleep" /\ rlog[4].secs > 0
    /\ \A i \in 2..Len(rlog) :
          rlog[i].ev = "call" => rlog[i - 1].ev = "sleep" /\ rlog[i - 1].secs > 0

C1_Witness ==
    /\ Reconnected /\ last.op = "reconnect" /\ last.res = "ok"
    /\ Len(calls) = 3 /\ Failed(1) /\ Failed(2)

\* C2: when every call of reconnect()'s body raises, the body is called
\* exactly 3 times and never more, a warning is logged, and reconnect() raises
\* the exception of the third call; it does not return normally.
C2_ExhaustedRaisesLast ==
    /\ Len(calls) <= 3
    /\ (Len(calls) = 3 /\ Failed(1) /\ Failed(2) /\ Failed(3))
          => last.res # "ok"
    /\ (Reconnected /\ last.res # "ok")
          => /\ Len(calls) = 3 /\ Failed(1) /\ Failed(2) /\ Failed(3)
             /\ rlog[Len(rlog)] = Warning(calls[3].res)
             /\ last.res = calls[3].res

C2_Witness ==
    /\ Reconnected /\ last.op = "reconnect" /\ last.res = "SocketError"
    /\ Len(calls) = 3 /\ calls[1].res = AuthenticationException

\* C3 as the spec states it: once a call of reconnect()'s body has failed with
\* the authentication error, that reconnect() makes no further attempt.
C3_AuthNotRetried ==
    \A i \in 1..Len(calls) :
        calls[i].res = AuthenticationException => i = Len(calls)

\* C3 amended: connect() itself stops at the rejected password and raises the
\* authentication error at once, but inside reconnect() the retry wrapper
\* treats it like any other exception: after a first or second attempt that
\* failed with it a further attempt is made, and it reaches the caller only as
\* the failure of the third attempt.
C3_AuthRetriedLikeAnyError ==
    /\ \A i \in 1..Len(calls) :
          (calls[i].res = AuthenticationException /\ i < 3 /\ pc # "retry")
              => Len(calls) > i
    /\ (Reconnected /\ last.res = AuthenticationException)
          => Len(calls) = 3 /\ calls[3].res = AuthenticationException
    /\ (last.op = "connect" /\ connLog # <<>>
          /\ connLog[Len(connLog)].pkey = None
          /\ connLog[Len(connLog)].out = AuthenticationException)
          => last.res = AuthenticationException

C3_Witness ==
    /\ Reconnected /\ last.res = AuthenticationException
    /\ Len(calls) = 3 /\ calls[1].res = AuthenticationException

\* C4: when the first n keys of the list are rejected with the authentication
\* error and key n + 1 is accepted, connect() returns, having called
\* self._ssh.connect exactly n + 1 times: with the keys 1 .. n + 1 in list
\* order, each with the password cleared; no later key and no password
\* attempt follows.
C4_KeysInListOrder ==
    (last.op = "connect" /\ self._ssh # 0)
      => \A n \in 0..(Len(self.private_keys) - 1) :
            ((\A i \in 1..n : connOuts[i] = AuthenticationException)
                /\ connOuts[n + 1] = "ok")
              => /\ last.res = "ok"
                 /\ Len(connLog) = n + 1
                 /\ \A i \in 1..(n + 1) :
                       /\ connLog[i].pkey = self.private_keys[i]
                       /\ connLog[i].password = None

C4_Witness ==
    /\ last.op = "connect" /\ last.res = "ok"
    /\ Len(self.private_keys) = 2 /\ self.password # None
    /\ connOuts[1] = AuthenticationException /\ connOuts[2] = "ok"

\* C5: when no key is accepted (there is none, or each is rejected with the
\* authentication error), connect() makes exactly one attempt with the
\* password, after the attempts with the keys, and ends as that attempt ends:
\* it returns when the password is accepted and raises that attempt's
\* exception otherwise.
C5_PasswordFallback ==
    (last.op = "connect" /\ self._ssh # 0
        /\ \A i \in 1..Len(self.private_keys) :
              connOuts[i] = AuthenticationException)
      => LET n == Len(self.private_keys)
         IN  /\ Len(connLog) = n + 1
             /\ \A i \in 1..n : connLog[i].pkey # None
             /\ connLog[n + 1].pkey = None
             /\ connLog[n + 1].password = self.password
             /\ last.res = connOuts[n + 1]

C5_Witness ==
    /\ last.op = "connect" /\ last.res = "ok"
    /\ Len(self.private_keys) = 2
    /\ connOuts[1] = AuthenticationException
    /\ connOuts[2] = AuthenticationException

\* C6: clear() never raises, whatever the session holds and however often it
\* is called in a row: it calls close() on the sftp client, the ssh client and
\* the proxy, in this order, on each of them the session holds, also after a
\* close() before it raised.
HeldInOrder ==
    LET IsHeld(x) == x.h # 0
    IN  SelectSeq(<<[kind |-> "sftp", h |-> self._sftp_client],
                    [kind |-> "ssh", h |-> self._ssh],
                    [kind |-> "proxy", h |-> self._proxy]>>, IsHeld)

C6_ClearNeverRaises ==
    last.op = "clear"
      => /\ last.res = "ok"
         /\ Len(clearLog) = Len(HeldInOrder)
         /\ \A i \in 1..Len(clearLog) :
               /\ clearLog[i].kind = HeldInOrder[i].kind
               /\ clearLog[i].h = HeldInOrder[i].h

C6_Witness ==
    /\ last.op = "clear" /\ streak >= 2
    /\ Len(clearLog) = 3
    /\ clearLog[1].raised /\ clearLog[2].raised

\* C7: __enter__ calls reconnect(); when reconnect() finally fails, clear() has
\* run when the failure reaches the caller; __exit__ runs clear() whether the
\* body ended normally or by an exception, which then goes on to the caller.
\* So once the scope is left, close() was called on every ssh client, sftp
\* client and proxy the session created.
C7_ScopeDisposes ==
    /\ (pc = "returned" /\ last.op = "__enter__")
          => /\ Len(calls) >= 1
             /\ (last.res = "ok") = (scope = "in")
             /\ last.res # "ok" => NoneOpen
    /\ (pc = "returned" /\ last.op = "__exit__")
          => /\ NoneOpen
             /\ scope = "out"
             /\ last.res = IF last.arg = None THEN "ok" ELSE last.arg
             /\ Len(clearLog) = Len(HeldInOrder)

C7_Witness ==
    /\ pc = "returned" /\ last.op = "__enter__" /\ last.res # "ok"
    /\ self._proxy # 0 /\ self._sftp_client # 0
    /\ Len(clearLog) = 3

IssuedOps == {"execute_async", "execute", "check_call", "check_stderr",
              "mkdir", "rm_rf"}
\* the places of event x in a channel's events
Places(ev, x) == {i \in 1..Len(ev) : ev[i] = x}
\* the sudo_mode of the session channel i of the last operation belongs to
FlagOf(i) ==
    IF last.op = "execute_together" THEN last.arg.remotes[i].sudo_mode
    ELSE self.sudo_mode

\* C8: the guard's __enter__ sets sudo_mode and its __exit__ clears it, whether
\* the body ended normally or by an exception; the exception, if any, goes on
\* to the caller.
C8_GuardSetsAndClears ==
    /\ last.op = "sudo.__enter__" => self.sudo_mode
    /\ last.op = "sudo.__exit__"
          => /\ ~self.sudo_mode
             /\ last.res = IF last.arg = None THEN "ok" ELSE last.arg

C8_Witness ==
    /\ last.op = "sudo.__exit__" /\ last.arg = "Exception"
    /\ ~self.sudo_mode /\ guards = 0

\* C9: on every channel a command was issued on, by execute_async, execute,
\* check_call, check_stderr, mkdir, rm_rf or (for each session) by
\* execute_together, the command line sent is the sudo wrapper around the
\* command when the session's sudo_mode is set, and the command followed by a
\* newline, unwrapped, when it is not.
C9_WrappedIffElevated ==
    \A i \in 1..Len(chans) :
        LET c == chans[i]
        IN  /\ (last.op = "execute_together"
                  /\ last.arg.remotes[i].host = self.host)
               => last.arg.remotes[i].sudo_mode = self.sudo_mode
            /\ Places(c.ev, "exec_command") # {}
            /\ FlagOf(i) => /\ Len(c.cmd) >= 3
                            /\ c.cmd[1] = SudoPrefix
                            /\ c.cmd[2] = Quote
                            /\ c.cmd[Len(c.cmd)] = Quote
            /\ ~FlagOf(i) => c.cmd = c.command \o <<Newline>>

C9_Witness ==
    /\ last.op = "execute_together" /\ Len(chans) = 2
    /\ self.sudo_mode /\ chans[1].host = self.host
    /\ chans[1].cmd[1] = SudoPrefix
    /\ chans[2].cmd = chans[2].command \o <<Newline>>

\* C10: under sudo_mode, when the channel is not closed right after the
\* command was issued, execute_async writes the password and a newline to the
\* channel's stdin and flushes it, exactly once, after exec_command and before
\* it returns (before anything is read from the channel); without sudo_mode it
\* writes nothing to stdin.
C10_PasswordOnceAfterExec ==
    last.op \in IssuedOps
      => \A i \in 1..Len(chans) :
            LET c == chans[i]
            IN  /\ (self.sudo_mode /\ ~c.closed)
                   => /\ c.stdin = <<<<self.password, Newline>>>>
                      /\ Len(c.ev) >= 4
                      /\ Places(c.ev, "exec_command") = {2}
                      /\ Places(c.ev, "stdin.write") = {3}
                      /\ Places(c.ev, "stdin.flush") = {4}
                /\ ~self.sudo_mode
                   => /\ c.stdin = <<>>
                      /\ Places(c.ev, "stdin.write") = {}
                      /\ Places(c.ev, "stdin.flush") = {}

C10_Witness ==
    /\ last.op = "execute_async" /\ Len(chans) = 1
    /\ self.sudo_mode /\ self.password = "secret"
    /\ ~chans[1].closed /\ chans[1].stdin # <<>>

\* C11 as the spec states it: on every channel a command was issued on while
\* its session's sudo_mode was set, the channels of execute_together included,
\* something was written to the channel's stdin, once, and on this session's
\* channel it is the session's password and a newline.  (A channel found
\* closed right after the command was issued is left out: nothing can be
\* written to it.)
C11_PasswordOnEveryElevated ==
    \A i \in 1..Len(chans) :
        LET c == chans[i]
        IN  (FlagOf(i) /\ ~c.closed)
              => /\ Len(c.stdin) = 1
                 /\ Places(c.ev, "stdin.write") # {}
                 /\ c.host = self.host
                       => c.stdin[1] = <<self.password, Newline>>

Together == last.op = "execute_together" /\ last.res # "AttributeError"
\* the remotes of the last execute_together whose command exited non-zero
failed == {i \in 1..Len(last.arg.remotes) : last.arg.exits[i] # 0}

\* C12: execute_together over connected sessions to different hosts returns
\* normally exactly when every session's command exited with 0; otherwise it
\* raises one CalledProcessError that carries the command and, as returncode,
\* a mapping whose keys are exactly the hosts with a non-zero exit status,
\* each mapped to its own exit status.
C12_AllOrNothing ==
    Together
      => /\ (last.res = "ok") <=> (failed = {})
         /\ last.res = "ok" => raised = <<>>
         /\ failed # {}
              => /\ last.res = "CalledProcessError"
                 /\ Len(raised) = 1
                 /\ raised[1].cmd = last.arg.command
                 /\ DOMAIN raised[1].returncode =
                       {last.arg.remotes[i].host : i \in failed}
                 /\ \A i \in failed :
                       raised[1].returncode[last.arg.remotes[i].host]
                          = last.arg.exits[i]

C12_Witness ==
    /\ Together /\ Len(last.arg.remotes) = 3
    /\ \A i \in 1..3 :
          last.arg.exits[i] = IF last.arg.remotes[i].host = "B" THEN 1 ELSE 0
    /\ Len(raised) = 1
    /\ DOMAIN raised[1].returncode = {"B"}
    /\ raised[1].returncode["B"] = 1

\* C13: execute_together issues the command on one channel per session, in
\* the order of the list, before it waits for any exit status; then it waits
\* exactly once on every session's channel, whatever the exit statuses it has
\* seen so far.
C13_IssueAllThenCollectAll ==
    Together
      => LET remotes == last.arg.remotes
             n == Len(remotes)
         IN  /\ Len(chans) = n
             /\ Len(trace) = 2 * n
             /\ \A i \in 1..n :
                   /\ trace[i].ev = "exec_command"
                   /\ trace[i].host = remotes[i].host
                   /\ chans[i].host = remotes[i].host
                   /\ Places(chans[i].ev, "exec_command") # {}
             /\ \A k \in (n + 1)..(2 * n) : trace[k].ev = "recv_exit_status"
             /\ \A i \in 1..n :
                   Cardinality({k \in (n + 1)..(2 * n) :
                                   trace[k].host = remotes[i].host}) = 1

C13_Witness ==
    /\ Together /\ Len(last.arg.remotes) = 3 /\ Len(trace) = 6
    /\ trace[4].ev = "recv_exit_status" /\ trace[4].ret # 0
    /\ trace[4].host = last.arg.remotes[3].host
    /\ trace[5].ev = "recv_exit_status" /\ trace[5].ret = 0
    /\ trace[6].ev = "recv_exit_status"

\* the last operation was op, it got a channel, and the channel delivered
\* the process's output and exit status without failing
Ran(op) == last.op = op /\ chans # <<>> /\ last.arg.fail = None
Closes == {"stdin.close", "stdout.close", "stderr.close", "chan.close"}

\* C14 as the spec states it: every execute(command) on a connected session
\* whose channel delivers the command's output and exit status returns
\* exactly one CommandResult, whose exit_code is that exit status and whose
\* is_ok is true exactly when the exit status is 0.
C14_ExecuteReturnsResult ==
    Ran("execute")
      => /\ last.res = "ok"
         /\ Len(result) = 1
         /\ result[1].exit_code = last.arg.proc.exit
         /\ is_ok(result[1]) <=> (last.arg.proc.exit = 0)

\* C15: check_call(command), verbose left at its default, raises
\* CalledProcessError exactly when the command's exit status is not 0; the
\* error carries the command, the exit status and the stdout lines followed
\* by the stderr lines; with exit status 0 it returns the CommandResult, the
\* one execute(command) returns when it returns.
C15_CheckCallRaisesIffNonzero ==
    (Ran("check_call") /\ ~last.arg.verbose)
      => LET proc == last.arg.proc
         IN  /\ (last.res = "CalledProcessError") <=> (proc.exit # 0)
             /\ proc.exit # 0
                  => /\ result = <<>>
                     /\ raised = <<[cmd |-> last.arg.command,
                                    returncode |-> proc.exit,
                                    output |-> proc.out \o proc.err]>>
             /\ proc.exit = 0
                  => /\ last.res = "ok"
                     /\ raised = <<>>
                     /\ Len(result) = 1
                     /\ is_ok(result[1])
                     /\ \A verbose \in BOOLEAN :
                           LET x == execute(self, lib, last.arg.command,
                                            verbose, FALSE, chans[1].closed,
                                            proc, None)
                           IN  x.res = "ok" => result = x.result

C15_Witness ==
    /\ Ran("check_call") /\ ~last.arg.verbose
    /\ last.arg.proc.exit = 2
    /\ Len(raised) = 1
    /\ raised[1].returncode = 2
    /\ raised[1].output = <<"o1", "o2", "e1">>

\* C16: check_stderr(command), verbose left at its default, raises
\* CalledProcessError whenever the exit status is not 0 or a line was read
\* from stderr, also with exit status 0, and returns the CommandResult only
\* when the exit status is 0 and stderr gave nothing.
C16_CheckStderrStricter ==
    (Ran("check_stderr") /\ ~last.arg.verbose)
      => LET proc == last.arg.proc
         IN  /\ (last.res = "CalledProcessError")
                   <=> (proc.exit # 0 \/ proc.err # <<>>)
             /\ (last.res = "ok") <=> (proc.exit = 0 /\ proc.err = <<>>)
             /\ last.res = "ok"
                  => /\ raised = <<>>
                     /\ Len(result) = 1
                     /\ result[1].exit_code = 0
                     /\ result[1].stderr = <<>>
             /\ last.res = "CalledProcessError"
                  => /\ result = <<>>
                     /\ Len(raised) = 1
                     /\ raised[1].cmd = last.arg.command
                     /\ raised[1].returncode = proc.exit

C16_Witness ==
    /\ Ran("check_stderr") /\ ~last.arg.verbose
    /\ last.arg.proc.exit = 0 /\ last.arg.proc.err # <<>>
    /\ last.res = "CalledProcessError"
    /\ Len(raised) = 1 /\ raised[1].returncode = 0

\* C17 as the spec states it: once an execute that got a channel has ended,
\* by returning or by raising, stdin, stdout, stderr and the channel were
\* closed by it.
C17_AlwaysClosed ==
    (pc = "returned" /\ last.op = "execute" /\ chans # <<>>)
      => \A x \in Closes : Places(chans[1].ev, x) # {}

\* a command or file operation is called on a session that has no ssh client:
\* reconnect() was never called on it
FirstUse == pc = "idle" /\ self._ssh = 0 /\ last'.op \in IssuedOps

\* C20 as the spec states it: a command or file operation called on a session
\* that was constructed and never connected establishes the connection and
\* does not fail for the lack of one.
C20_LazyConnect ==
    [][FirstUse => (lib'.connected /\ last'.res # "AttributeError")]_vars

\* C20 amended: a session that was only constructed holds no ssh client, no
\* sftp client and no proxy, and nothing was opened for it; a command or file
\* operation called on it raises AttributeError and opens nothing: the
\* session stays without a connection until reconnect() is called.
C20_ConnectedOnlyExplicitly ==
    /\ [](self._ssh = 0
            => /\ lib = NoHandles
               /\ self._sftp_client = 0 /\ self._proxy = 0)
    /\ [][FirstUse
            => /\ last'.res = "AttributeError"
               /\ self' = self /\ lib' = lib
               /\ chans' = <<>> /\ result' = <<>>]_vars

C20_Witness ==
    /\ pc = "returned" /\ last.op = "mkdir" /\ last.res = "AttributeError"
    /\ self._ssh = 0 /\ ~lib.connected

Downloaded == pc = "returned" /\ last.op = "download" /\ last.res = "ok"
\* the path download writes to and looks at: the target, or the target with
\* the destination's base name when the target is a local directory
Goal ==
    IF last.arg.was[last.arg.target] = "dir"
    THEN last.arg.target \o <<basename(last.arg.destination)>>
    ELSE last.arg.target
Refused == last.arg.remote \in {"none", "dir"}

\* C18 as the spec states it: when the remote path is a directory or is not
\* there, download transfers nothing and returns False.
C18_RefusalReturnsFalse ==
    (Downloaded /\ Refused) => (ops = <<>> /\ retval = <<FALSE>>)

\* C18 amended: when the remote path is a directory or is not there,
\* download calls no get and leaves the local files as they are; whenever
\* download returns, it returns whether the local target (with the remote
\* base name appended when the target is a directory) is there afterwards:
\* after a refusal that is what was there before, False only if the local
\* target was not there.
C18_ReturnsTargetExists ==
    Downloaded
      => /\ retval = <<lfs[Goal] # "none">>
         /\ Refused
              => /\ ops = <<>>
                 /\ lfs = last.arg.was
                 /\ retval = <<last.arg.was[Goal] # "none">>
         /\ ~Refused
              => /\ Len(ops) = 1 /\ ops[1].op = "get"
                 /\ lfs[Goal] = "file"

C18_Witness ==
    /\ Downloaded /\ last.arg.remote = "none"
    /\ last.arg.was[last.arg.target] = "file"
    /\ ops = <<>> /\ retval = <<TRUE>>

Uploaded ==
    /\ pc = "returned" /\ last.op = "upload"
    /\ last.arg.source.kind = "dir"
\* where the last upload put the source
Root ==
    IF last.arg.was = "dir" THEN last.arg.target \o <<last.arg.source.name>>
    ELSE last.arg.target

C19_Replaced ==
    /\ Uploaded /\ last.res = "ok"
    /\ \E i \in 2..Len(ops) : ops[i].op = "put" /\ ops[i - 1].op = "unlink"

\* ------------------------------------------------------------------------ C21
\* The handle of kind k the session holds (0: none).
Held(k) ==
    IF k = "ssh" THEN self._ssh
    ELSE IF k = "sftp" THEN self._sftp_client ELSE self._proxy

\* C21: whatever connect, reconnect (failed and retried ones too), clear, scope
\* entry and exit and uses of the sftp client came before, the session has at
\* most one open handle of each kind (ssh client, sftp client, proxy), and it
\* is the one its attribute holds: a new handle is only made once close() was
\* called on the one before.
C21_AtMostOneLive ==
    \A k \in Kinds :
        /\ Cardinality(lib.unclosed[k]) <= 1
        /\ lib.unclosed[k] \subseteq {Held(k)}

\* C21 witness: a reconnect through a proxy returned on a session that had a
\* connection, a proxy and an sftp client before; the new ssh client and proxy
\* are the only open ones.
C21_Witness ==
    /\ pc = "returned" /\ last.op = "reconnect" /\ last.res = "ok"
    /\ self._sftp_client # 0 /\ self._ssh > 1 /\ self._proxy > 1
    /\ lib.unclosed["ssh"] = {self._ssh}
    /\ lib.unclosed["proxy"] = {self._proxy}
    /\ lib.unclosed["sftp"] = {}


\* ------------------------------------------------------------------------ C25
\* C25: on a connected session, the sftp client a file operation gets from
\* self._sftp is an open one, also after reconnect() or after clear() and a
\* new connection: a client that clear() or reconnect() closed is never handed
\* out again.
C25_SftpOnCurrentConnection ==
    (pc = "returned" /\ last.op = "_sftp" /\ last.res = "ok" /\ lib.connected)
        => self._sftp_client \in lib.unclosed["sftp"]


\* ------------------------------------------------------------------------ C27
\* The first key whose attempt ended in something else than a rejection
\* (0: every key was rejected, or there is no key).
RECURSIVE FirstOther(_, _, _)
FirstOther(outs, i, n) ==
    IF i > n THEN 0
    ELSE IF outs[i] = AuthenticationException THEN FirstOther(outs, i + 1, n)
    ELSE i

\* C27: in connect(), when the attempt with some key ends in an error that is
\* not an authentication rejection, after rejections of the keys before it,
\* connect() ends with that error at once: that attempt is the last one, no
\* later key is tried and the password is not tried.
C27_OtherErrorPropagates ==
    (pc = "returned" /\ last.op = "connect" /\ connOuts # <<>>) =>
        LET i == FirstOther(connOuts, 1, Len(self.private_keys))
        IN  (i # 0 /\ connOuts[i] # "ok") =>
                /\ last.res = connOuts[i]
                /\ Len(connLog) = i
                /\ \A j \in 1..i :
                       /\ connLog[j].pkey = self.private_keys[j]
                       /\ connLog[j].out = connOuts[j]

\* C27 witness: with two keys and a password, the first key's attempt ends in
\* an error other than a rejection: one attempt was made.
C27_Witness ==
    /\ pc = "returned" /\ last.op = "connect"
    /\ Len(self.private_keys) = 2 /\ self.password # None
    /\ connOuts # <<>>
    /\ connOuts[1] \notin {"ok", AuthenticationException}
    /\ last.res = connOuts[1]
    /\ Len(connLog) = 1


\* ------------------------------------------------------------------------ C26
\* C26: while the body of at least one "with session.sudo:" is running, nested
\* ones included, sudo_mode is set: leaving an inner one does not clear the
\* flag for the rest of the enclosing one.
C26_FlagWhileGuarded == guards > 0 => self.sudo_mode


\* ------------------------------------------------------------------------ C23
\* How the remote shell reads a double-quoted word: the place of the double
\* quote that ends it, looking from place i on (0: none).  Inside double
\* quotes a backslash takes the double quote or backslash after it literally.
RECURSIVE ClosingQuote(_, _)
ClosingQuote(text, i) ==
    IF i > Len(text) THEN 0
    ELSE IF text[i] = Quote THEN i
    ELSE IF text[i] = Backslash /\ i < Len(text)
            /\ text[i + 1] \in {Quote, Backslash}
    THEN ClosingQuote(text, i + 2)
    ELSE ClosingQuote(text, i + 1)

\* C23: in the sudo wrapper the command is quoted safely: for every command,
\* double quotes and backslashes in it included, the double-quoted argument
\* of "bash -c" as the remote shell reads it ends at the wrapper's closing
\* quote; nothing of the command's own text ends it earlier.
C23_SafelyQuoted ==
    \A i \in 1..Len(chans) :
        FlagOf(i) => ClosingQuote(chans[i].cmd, 3) = Len(chans[i].cmd)


\* ------------------------------------------------------------------------ C22
\* C22: when remote.execute gave os_execute a result, os_execute raises
\* CommandFailed exactly when fail_ok is not set and the exit code is not 0;
\* with fail_ok set it returns a text for every exit code; the text returned
\* is the standard output's text, and with merge_stderr set the standard
\* error's text followed by the standard output's text.
C22_CommandFailedIffNotFailOk ==
    (pc = "returned" /\ last.op = "os_execute" /\ result # <<>>) =>
        LET failed_cmd == result[1].exit_code # 0
            out == strip(joined(last.arg.proc.out))
            err == strip(joined(last.arg.proc.err))
        IN  /\ last.res = "CommandFailed" <=> (~last.arg.fail_ok /\ failed_cmd)
            /\ last.res = "CommandFailed"
                  => /\ retval = <<>>
                     /\ Len(raised) = 1
                     /\ raised[1].returncode = result[1].exit_code
            /\ last.res # "CommandFailed"
                  => /\ last.res = "ok" /\ raised = <<>>
                     /\ retval = <<(IF last.arg.merge_stderr THEN err
                                    ELSE <<>>) \o out>>

\* C22 witness: a failed command with output on both streams, run with
\* fail_ok and merge_stderr, returned the standard error's text followed by
\* the standard output's.
C22_Witness ==
    /\ pc = "returned" /\ last.op = "os_execute" /\ last.res = "ok"
    /\ last.arg.fail_ok /\ last.arg.merge_stderr
    /\ result # <<>> /\ result[1].exit_code = 2
    /\ retval = <<<<"e1", "o1", Newline, "o2">>>>


\* ------------------------------------------------------------------------ C28
\* C28: an execute call that has started returns in the end, given that the
\* remote process exits once it could write its output: reading stdout to its
\* end before anything of stderr cannot leave execute and the process waiting
\* for each other for good.
C28_ExecuteReturns ==
    (stream.pc \notin {"idle", "returned"}) ~> (stream.pc = "returned")


\* ------------------------------------------------------------------------ C24
\* The place of a call in the order execute makes its calls in.
Phase(x) ==
    CASE x = "open_session" -> 1
      [] x = "exec_command" -> 2
      [] x = "stdout.readline" -> 4
      [] x = "stdout.eof" -> 5
      [] x = "stderr.readline" -> 6
      [] x = "stderr.eof" -> 7
      [] x = "recv_exit_status" -> 8
      [] x = "stdin.close" -> 9
      [] x = "stdout.close" -> 10
      [] x = "stderr.close" -> 11
      [] x = "chan.close" -> 12
      [] x = "return" -> 13
      [] OTHER -> 3
\* the calls execute makes once
Once == {"open_session", "exec_command", "stdout.eof", "stderr.eof",
         "recv_exit_status", "stdin.close", "stdout.close", "stderr.close",
         "chan.close", "return"}
\* the lines the process has written that arrive on fd, in the order written
Arrived(st, fd) ==
    LET on(w) == ArrivesOn(st, w.fd) = fd
        ws == SelectSeq(st.sent, on)
    IN  [i \in 1..Len(ws) |-> ws[i].line]

\* C24: within one execute the calls come in this order: the channel is
\* opened and the command issued, stdout is read to its end, then stderr to
\* its end, then the exit status is collected, then stdin, stdout, stderr and
\* the channel are closed, then the result is returned; none is left out on
\* the way to a returned result.  The exit status is not collected before
\* both streams were read to their end and everything written was read; the
\* lines captured of each stream are the lines received, in their order.
C24_StepsInOrder ==
    /\ \A i, j \in 1..Len(stream.ev) :
           i < j => Phase(stream.ev[i]) <= Phase(stream.ev[j])
    /\ \A x \in Once : Cardinality(Places(stream.ev, x)) <= 1
    /\ Places(stream.ev, "recv_exit_status") # {}
          => /\ Places(stream.ev, "stdout.eof") # {}
             /\ Places(stream.ev, "stderr.eof") # {}
             /\ stream.todo = <<>>
             /\ stream.outbuf = <<>> /\ stream.errbuf = <<>>
    /\ stream.stdout \o stream.outbuf = Arrived(stream, "out")
    /\ stream.stderr \o stream.errbuf = Arrived(stream, "err")
    /\ (stream.pc = "returned" /\ stream.res = "ok")
          => /\ \A x \in Once : Cardinality(Places(stream.ev, x)) = 1
             /\ stream.retval = <<[stdout |-> Arrived(stream, "out"),
                                   stderr |-> Arrived(stream, "err"),
                                   exit_code |-> stream.exit]>>

\* C24 witness: execute returned the result of a process that wrote to
\* stdout, then to stderr, then to stdout again and exited with 2.
C24_Witness ==
    /\ stream.pc = "returned" /\ stream.res = "ok" /\ ~stream.merge
    /\ stream.retval = <<[stdout |-> <<"w1", "w3">>, stderr |-> <<"w2">>,
                          exit_code |-> 2]>>
    /\ stream.ev[Len(stream.ev)] = "return"

====
